---------------------------- MODULE Spec2Model ----------------------------
(***************************************************************************)
(* Model of the visitor clustering of the live visitor map                 *)
(* (src/src/components/VisitorMap.tsx).                                    *)
(*                                                                         *)
(* Numbers.  JavaScript numbers are modelled as fixed-point integers:      *)
(*   - a coordinate is an integer count of 1/DEG degrees;                  *)
(*   - an angle in radians, a sine, a cosine, the haversine term `a' are   *)
(*     integer counts of 1/ONE;                                            *)
(*   - a distance is an integer count of 1/KM kilometres (metres);         *)
(*   - NaN is a value of its own, outside every range above.               *)
(* TLC's integers are 32 bits wide, so products are formed limb by limb.   *)
(***************************************************************************)
EXTENDS Integers, Sequences, FiniteSets, TLC

\* ------------------------------------------------------------------------
\* Fixed-point arithmetic (the `number' type and Math.*)
\* ------------------------------------------------------------------------

\* units per degree of a coordinate
DEG == 10000

\* units per 1.0 of a dimensionless number or a radian
ONE == 100000000

\* the limb base: ONE = LIMB * LIMB
LIMB == 10000

\* distance units per kilometre
KM == 1000

\* the not-a-number value
NaN == -2000000000

\* Math.PI
PI == 314159265

HALF_PI == 157079633

TWO_PI == 628318530

IsNaN(x) == x = NaN

Abs(x) == IF x < 0 THEN -x ELSE x

Sgn(x) == IF x < 0 THEN -1 ELSE 1

\* x * y / ONE for 0 <= x, y <= 4 * ONE, truncated
MulAbs(x, y) ==
  LET x1 == x \div LIMB
      x0 == x % LIMB
      y1 == y \div LIMB
      y0 == y % LIMB
  IN  x1 * y1 + (x1 * y0 + x0 * y1 + (x0 * y0) \div LIMB) \div LIMB

\* the product of two fixed-point numbers
Mul(x, y) ==
  IF IsNaN(x) \/ IsNaN(y) THEN NaN
  ELSE Sgn(x) * Sgn(y) * MulAbs(Abs(x), Abs(y))

\* the sum of two numbers
Add(x, y) == IF IsNaN(x) \/ IsNaN(y) THEN NaN ELSE x + y

\* the difference of two numbers
Sub(x, y) == IF IsNaN(x) \/ IsNaN(y) THEN NaN ELSE x - y

\* x / n for a number x and a positive count n, rounded to the nearest unit
DivN(x, n) ==
  IF IsNaN(x) THEN NaN
  ELSE Sgn(x) * ((2 * Abs(x) + n) \div (2 * n))

\* (x * Math.PI) / 180 for x in coordinate units: radians in units of 1/ONE.
\* PI / 180 * ONE / DEG = 174.5329
DegToRad(x) ==
  IF IsNaN(x) THEN NaN
  ELSE LET ax == Abs(x)
           xh == ax \div LIMB
           xl == ax % LIMB
       IN  Sgn(x) * (ax * 174 + xh * 5329 + (xl * 5329) \div LIMB)

\* the Taylor series of the sine for -HALF_PI <= x <= HALF_PI, in Horner form
SinSeries(x) ==
  LET x2 == MulAbs(Abs(x), Abs(x))
      t7 == ONE - x2 \div 210
      t6 == ONE - MulAbs(x2, t7) \div 156
      t5 == ONE - MulAbs(x2, t6) \div 110
      t4 == ONE - MulAbs(x2, t5) \div 72
      t3 == ONE - MulAbs(x2, t4) \div 42
      t2 == ONE - MulAbs(x2, t3) \div 20
      t1 == ONE - MulAbs(x2, t2) \div 6
  IN  Sgn(x) * MulAbs(Abs(x), t1)

\* Math.sin
Sin(x) ==
  IF IsNaN(x) THEN NaN
  ELSE LET r == ((x + PI) % TWO_PI) - PI
       IN  IF r > HALF_PI THEN SinSeries(PI - r)
           ELSE IF r < -HALF_PI THEN SinSeries(-PI - r)
           ELSE SinSeries(r)

\* Math.cos
Cos(x) == IF IsNaN(x) THEN NaN ELSE Sin(HALF_PI - x)

\* s * s <= a * ONE, with the square formed limb by limb
SquareLeq(s, a) ==
  LET s1 == s \div LIMB
      s0 == s % LIMB
      m  == 2 * s1 * s0
      lo == (m % LIMB) * LIMB + s0 * s0
      hi == s1 * s1 + m \div LIMB + lo \div ONE
  IN  hi < a \/ (hi = a /\ lo % ONE = 0)

RECURSIVE SqrtBisect(_, _, _)
\* the largest s in lo .. hi - 1 with s * s <= a * ONE
SqrtBisect(a, lo, hi) ==
  IF hi - lo <= 1 THEN lo
  ELSE LET mid == (lo + hi) \div 2
       IN  IF SquareLeq(mid, a) THEN SqrtBisect(a, mid, hi)
           ELSE SqrtBisect(a, lo, mid)

\* Math.sqrt: NaN for a negative argument
Sqrt(a) ==
  IF IsNaN(a) \/ a < 0 THEN NaN
  ELSE SqrtBisect(a, 0, 2 * ONE + 1)

\* atan(2^-i) for i = 0 .. 27, in units of 1/ONE
AtanTable ==
  << 78539816, 46364761, 24497866, 12435499, 6241881, 3123983, 1562373,
     781234, 390623, 195312, 97656, 48828, 24414, 12207, 6104, 3052, 1526,
     763, 381, 191, 95, 48, 24, 12, 6, 3, 1, 1 >>

RECURSIVE Cordic(_, _, _, _)
\* the angle of the vector (x, y), x > 0, by successive rotations onto the
\* x axis (vectoring mode)
Cordic(x, y, z, i) ==
  IF i >= Len(AtanTable) \/ y = 0 THEN z
  ELSE IF y > 0
       THEN Cordic(x + y \div (2 ^ i), y - x \div (2 ^ i),
                   z + AtanTable[i + 1], i + 1)
       ELSE Cordic(x + (-y) \div (2 ^ i), y + x \div (2 ^ i),
                   z - AtanTable[i + 1], i + 1)

\* Math.atan2(y, x)
Atan2(y, x) ==
  IF IsNaN(y) \/ IsNaN(x) THEN NaN
  ELSE IF y = 0 THEN (IF x >= 0 THEN 0 ELSE PI)
  ELSE IF x = 0 THEN (IF y > 0 THEN HALF_PI ELSE -HALF_PI)
  ELSE IF x > 0 THEN Cordic(x, y, 0, 0)
  ELSE IF y > 0 THEN PI - Cordic(-x, y, 0, 0)
  ELSE -PI - Cordic(-x, y, 0, 0)

\* ------------------------------------------------------------------------
\* calculateDistance: the haversine great-circle distance
\* ------------------------------------------------------------------------

\* const earthRadius = 6371, in kilometres
earthRadius == 6371

\* earthRadius * c for c in units of 1/ONE: the distance in units of 1/KM
ScaleByRadius(c) ==
  IF IsNaN(c) THEN NaN
  ELSE LET f  == ONE \div KM
           ch == c \div f
           cl == c % f
       IN  earthRadius * ch + (earthRadius * cl) \div f

\* the haversine term a of calculateDistance
HaversineA(latitude1, longitude1, latitude2, longitude2) ==
  LET dLat    == DegToRad(Sub(latitude2, latitude1))
      dLon    == DegToRad(Sub(longitude2, longitude1))
      lat1Rad == DegToRad(latitude1)
      lat2Rad == DegToRad(latitude2)
      sLat    == Sin(DivN(dLat, 2))
      sLon    == Sin(DivN(dLon, 2))
  IN  Add(Mul(sLat, sLat),
          Mul(Mul(Mul(sLon, sLon), Cos(lat1Rad)), Cos(lat2Rad)))

calculateDistance(latitude1, longitude1, latitude2, longitude2) ==
  LET a == HaversineA(latitude1, longitude1, latitude2, longitude2)
      c == Mul(2 * ONE, Atan2(Sqrt(a), Sqrt(Sub(ONE, a))))
  IN  ScaleByRadius(c)

\* ------------------------------------------------------------------------
\* parseFloat
\* ------------------------------------------------------------------------

\* A string is a tuple of one-character strings.
Digits == {"0", "1", "2", "3", "4", "5", "6", "7", "8", "9"}

DigitValue(ch) ==
  CASE ch = "0" -> 0 [] ch = "1" -> 1 [] ch = "2" -> 2 [] ch = "3" -> 3
    [] ch = "4" -> 4 [] ch = "5" -> 5 [] ch = "6" -> 6 [] ch = "7" -> 7
    [] ch = "8" -> 8 [] ch = "9" -> 9

RECURSIVE SkipSpaces(_, _)
\* the first position from k on that holds no white space
SkipSpaces(str, k) ==
  IF k <= Len(str) /\ str[k] = " " THEN SkipSpaces(str, k + 1) ELSE k

RECURSIVE DigitsEnd(_, _)
\* the first position from k on that holds no digit
DigitsEnd(str, k) ==
  IF k <= Len(str) /\ str[k] \in Digits THEN DigitsEnd(str, k + 1) ELSE k

RECURSIVE DigitsValue(_, _, _, _)
\* the integer written by the digits str[k] .. str[to - 1], after acc
DigitsValue(str, k, to, acc) ==
  IF k >= to THEN acc
  ELSE DigitsValue(str, k + 1, to, 10 * acc + DigitValue(str[k]))

RECURSIVE FractionValue(_, _, _, _)
\* the fraction written by the digits str[k] .. str[to - 1], in units of
\* 1/DEG; scale is the weight of the digit at k
FractionValue(str, k, to, scale) ==
  IF k >= to \/ scale = 0 THEN 0
  ELSE scale * DigitValue(str[k])
         + FractionValue(str, k + 1, to, scale \div 10)

\* parseFloat of a string: the number its longest numeric prefix writes
\* (white space, a sign, digits, a point, digits), NaN when it has none
ParseFloatString(str) ==
  LET k0     == SkipSpaces(str, 1)
      signed == k0 <= Len(str) /\ str[k0] \in {"-", "+"}
      neg    == k0 <= Len(str) /\ str[k0] = "-"
      k1     == IF signed THEN k0 + 1 ELSE k0
      k2     == DigitsEnd(str, k1)
      hasDot == k2 <= Len(str) /\ str[k2] = "."
      k3     == IF hasDot THEN DigitsEnd(str, k2 + 1) ELSE k2
      nFrac  == IF hasDot THEN k3 - (k2 + 1) ELSE 0
      mag    == DigitsValue(str, k1, k2, 0) * DEG
                  + (IF hasDot
                     THEN FractionValue(str, k2 + 1, k3, DEG \div 10)
                     ELSE 0)
  IN  IF k2 = k1 /\ nFrac = 0 THEN NaN
      ELSE IF neg THEN -mag ELSE mag

\* A coordinate field (string | number) is [type |-> "number", num |-> n]
\* or [type |-> "string", str |-> s].
\* parseFloat(field as string): a number is written out and read back
ParseFloat(field) ==
  IF field.type = "number" THEN field.num ELSE ParseFloatString(field.str)

\* ------------------------------------------------------------------------
\* createClusters, radius variant
\* ------------------------------------------------------------------------

\* const radius = 50, in kilometres
radius == 50

\* WithinRadius with the radius ten times too wide
WithinRadiusWide(distance) ==
  ~IsNaN(distance) /\ distance <= 10 * radius * KM

\* distance <= radius: false when the distance is NaN
WithinRadius(distance) == ~IsNaN(distance) /\ distance <= radius * KM

\* visitors.map(...): the visitor with its parsed coordinates
Point(visitor) ==
  [latitude  |-> ParseFloat(visitor.latitude),
   longitude |-> ParseFloat(visitor.longitude),
   visitor   |-> visitor]

\* VisitCountOrOne without the default of 1
VisitCountRaw(visitor) ==
  IF "visit_count" \in DOMAIN visitor THEN visitor.visit_count ELSE 0

\* visit_count || 1: 1 when the count is absent or zero
VisitCountOrOne(visitor) ==
  IF "visit_count" \in DOMAIN visitor /\ visitor.visit_count # 0
  THEN visitor.visit_count
  ELSE 1

RECURSIVE SumLatitude(_)
\* members.reduce((sum, v) => sum + parseFloat(v.latitude), 0)
SumLatitude(members) ==
  IF members = << >> THEN 0
  ELSE Add(SumLatitude(SubSeq(members, 1, Len(members) - 1)),
           ParseFloat(members[Len(members)].latitude))

RECURSIVE SumLongitude(_)
\* members.reduce((sum, v) => sum + parseFloat(v.longitude), 0)
SumLongitude(members) ==
  IF members = << >> THEN 0
  ELSE Add(SumLongitude(SubSeq(members, 1, Len(members) - 1)),
           ParseFloat(members[Len(members)].longitude))

RECURSIVE SumVisits(_)
\* members.reduce((sum, v) => sum + (v.visit_count || 1), 0)
SumVisits(members) ==
  IF members = << >> THEN 0
  ELSE SumVisits(SubSeq(members, 1, Len(members) - 1))
         + VisitCountOrOne(members[Len(members)])

\* SeedCluster without the default of the visit count: totalVisits is
\* visit_count as it stands
SeedClusterRawCount(point) ==
  [latitude    |-> point.latitude,
   longitude   |-> point.longitude,
   visitors    |-> << point.visitor >>,
   totalVisits |-> VisitCountRaw(point.visitor)]

\* a new cluster holding one point
SeedCluster(point) ==
  [latitude    |-> point.latitude,
   longitude   |-> point.longitude,
   visitors    |-> << point.visitor >>,
   totalVisits |-> VisitCountOrOne(point.visitor)]

\* AddToCluster with the sums divided by the visits, not by the members
AddToClusterByVisits(cluster, point) ==
  LET members == Append(cluster.visitors, point.visitor)
  IN  [latitude    |-> DivN(SumLatitude(members), SumVisits(members)),
       longitude   |-> DivN(SumLongitude(members), SumVisits(members)),
       visitors    |-> members,
       totalVisits |-> SumVisits(members)]

\* AddToCluster with the visitor put before the members, not after them
AddToClusterFront(cluster, point) ==
  LET members == << point.visitor >> \o cluster.visitors
  IN  [latitude    |-> DivN(SumLatitude(members), Len(members)),
       longitude   |-> DivN(SumLongitude(members), Len(members)),
       visitors    |-> members,
       totalVisits |-> SumVisits(members)]

\* the cluster after the point has been pushed and its centre recalculated
AddToCluster(cluster, point) ==
  LET members == Append(cluster.visitors, point.visitor)
  IN  [latitude    |-> DivN(SumLatitude(members), Len(members)),
       longitude   |-> DivN(SumLongitude(members), Len(members)),
       visitors    |-> members,
       totalVisits |-> SumVisits(members)]

\* the distance of a point from the current centre of a cluster
DistanceTo(cluster, point) ==
  calculateDistance(cluster.latitude, cluster.longitude,
                    point.latitude, point.longitude)

\* FirstWithin choosing the nearest cluster within the radius, not the first
NearestWithin(clusterList, point, j) ==
  LET within == { k \in j .. Len(clusterList) :
                    WithinRadius(DistanceTo(clusterList[k], point)) }
  IN  IF within = {} THEN 0
      ELSE CHOOSE k \in within :
             \A l \in within :
               \/ DistanceTo(clusterList[k], point)
                    < DistanceTo(clusterList[l], point)
               \/ /\ DistanceTo(clusterList[k], point)
                      = DistanceTo(clusterList[l], point)
                  /\ k <= l

RECURSIVE FirstWithin(_, _, _)
\* for (const cluster of clusters): the index, from j on, of the first
\* cluster whose centre is within the radius of the point; 0 when none is
FirstWithin(clusterList, point, j) ==
  IF j > Len(clusterList) THEN 0
  ELSE IF WithinRadius(DistanceTo(clusterList[j], point)) THEN j
  ELSE FirstWithin(clusterList, point, j + 1)

\* AddPoint putting a new cluster at the front of the list
AddPointUnshift(clusterList, point) ==
  LET j == FirstWithin(clusterList, point, 1)
  IN  IF j # 0
      THEN [clusterList EXCEPT ![j] = AddToCluster(@, point)]
      ELSE << SeedCluster(point) >> \o clusterList

\* one iteration of the loop over the remaining points
AddPoint(clusterList, point) ==
  LET j == FirstWithin(clusterList, point, 1)
  IN  IF j # 0
      THEN [clusterList EXCEPT ![j] = AddToCluster(@, point)]
      ELSE Append(clusterList, SeedCluster(point))

\* LoopStart with the loop starting at the seeding point
LoopStartAtSeed == 2 - 1

\* the first index of the loop over the remaining points (i = 1, counted
\* from 0, is position 2)
LoopStart == 2

RECURSIVE LoopFrom(_, _, _)
\* the loop from position k to the end of the list
LoopFrom(clusterList, list, k) ==
  IF k > Len(list) THEN clusterList
  ELSE LoopFrom(AddPoint(clusterList, Point(list[k])), list, k + 1)

\* createClusters(visitors, zoomLevel) as a function of its arguments
createClusters(list, zoom) ==
  IF Len(list) = 0 THEN << >>
  ELSE LoopFrom(<< SeedCluster(Point(list[1])) >>, list, LoopStart)

\* ------------------------------------------------------------------------
\* createClusters, grid variant
\* ------------------------------------------------------------------------

\* units per 1.0 of the zoom parameter
ZOOM == 10

getGridSize(zoom) ==
  IF zoom <= 1 * ZOOM THEN 20
  ELSE IF zoom <= 2 * ZOOM THEN 10
  ELSE IF zoom <= 4 * ZOOM THEN 5
  ELSE 2

\* Math.max of no argument
NegInfinity == -1999999999

\* new Date(v.last_seen || 0).getTime(): milliseconds, 0 when absent
VisitTime(visitor) ==
  IF "last_seen" \in DOMAIN visitor THEN visitor.last_seen ELSE 0

RECURSIVE MaxVisitTime(_)
\* Math.max(...list.map(v => new Date(v.last_seen || 0).getTime()))
MaxVisitTime(list) ==
  IF list = << >> THEN NegInfinity
  ELSE LET rest == MaxVisitTime(SubSeq(list, 1, Len(list) - 1))
           t    == VisitTime(list[Len(list)])
       IN  IF t > rest THEN t ELSE rest

\* the width of the recency window, in milliseconds
RecentWindow == 5000

\* mostRecentVisit - 5000
RecentThreshold(list) ==
  IF MaxVisitTime(list) = NegInfinity THEN NegInfinity
  ELSE MaxVisitTime(list) - RecentWindow

\* typeof field === "string" ? parseFloat(field) : field
ToNumber(field) ==
  IF field.type = "string" THEN ParseFloatString(field.str) ELSE field.num

\* GridFloor rounding towards zero, not down
GridFloorTruncate(x, gridSize) ==
  Sgn(x) * (Abs(x) \div (gridSize * DEG)) * gridSize

\* Math.floor(x / gridSize) * gridSize, in whole degrees
GridFloor(x, gridSize) == (x \div (gridSize * DEG)) * gridSize

RECURSIVE CellIndex(_, _, _)
\* the position of the cell with this key, from j on; 0 when there is none
CellIndex(cells, key, j) ==
  IF j > Len(cells) THEN 0
  ELSE IF cells[j].key = key THEN j
  ELSE CellIndex(cells, key, j + 1)

\* one call of the forEach callback: the grid after the visitor is assigned
AssignToGrid(cells, visitor, gridSize) ==
  LET lat == ToNumber(visitor.latitude)
      lon == ToNumber(visitor.longitude)
      key == << GridFloor(lat, gridSize), GridFloor(lon, gridSize) >>
      row == [visitor EXCEPT !.latitude  = [type |-> "number", num |-> lat],
                             !.longitude = [type |-> "number", num |-> lon]]
      j   == CellIndex(cells, key, 1)
  IN  IF IsNaN(lat) \/ IsNaN(lon) THEN cells
      ELSE IF j = 0
      THEN Append(cells, [key |-> key, visitors |-> << row >>])
      ELSE [cells EXCEPT ![j].visitors = Append(@, row)]

RECURSIVE SumNumberLatitude(_)
\* cellVisitors.reduce((sum, v) => sum + lat, 0)
SumNumberLatitude(members) ==
  IF members = << >> THEN 0
  ELSE Add(SumNumberLatitude(SubSeq(members, 1, Len(members) - 1)),
           ToNumber(members[Len(members)].latitude))

RECURSIVE SumNumberLongitude(_)
\* cellVisitors.reduce((sum, v) => sum + lon, 0)
SumNumberLongitude(members) ==
  IF members = << >> THEN 0
  ELSE Add(SumNumberLongitude(SubSeq(members, 1, Len(members) - 1)),
           ToNumber(members[Len(members)].longitude))

\* the cluster made of one grid cell
CellCluster(cellVisitors, recentThreshold) ==
  LET base == [latitude    |-> DivN(SumNumberLatitude(cellVisitors),
                                    Len(cellVisitors)),
               longitude   |-> DivN(SumNumberLongitude(cellVisitors),
                                    Len(cellVisitors)),
               visitors    |-> cellVisitors,
               totalVisits |-> SumVisits(cellVisitors)]
      lastVisitTime == MaxVisitTime(cellVisitors)
  IN  IF lastVisitTime >= recentThreshold
      THEN [lastVisitTime |-> lastVisitTime] @@ base
      ELSE base

\* Object.entries(grid).map(...): one cluster per cell, in insertion order
GridClusters(cells, recentThreshold) ==
  [j \in 1 .. Len(cells) |-> CellCluster(cells[j].visitors, recentThreshold)]

RECURSIVE AssignFrom(_, _, _, _)
\* visitors.forEach(...) from position k to the end of the list
AssignFrom(cells, list, gridSize, k) ==
  IF k > Len(list) THEN cells
  ELSE AssignFrom(AssignToGrid(cells, list[k], gridSize), list, gridSize,
                  k + 1)

\* createClusters(visitors, zoom) of the grid variant, as a function of its
\* arguments
createClustersGrid(list, zoom) ==
  GridClusters(AssignFrom(<< >>, list, getGridSize(zoom), 1),
               RecentThreshold(list))

\* ------------------------------------------------------------------------
\* The visitor rows the calls are made with
\* ------------------------------------------------------------------------

Num(n) == [type |-> "number", num |-> n]

Str(s) == [type |-> "string", str |-> s]

\* New York (40.7128, -74.0060), numeric coordinates
NewYork ==
  [latitude |-> Num(407128), longitude |-> Num(-740060),
   visit_count |-> 1, last_seen |-> 30000]

\* a second point in New York (40.7300, -73.9350), coordinates as strings,
\* no visit_count
NewYork2 ==
  [latitude  |-> Str(<< "4", "0", ".", "7", "3", "0", "0" >>),
   longitude |-> Str(<< "-", "7", "3", ".", "9", "3", "5", "0" >>),
   last_seen |-> 27000]

\* London (51.5074, -0.1278)
London ==
  [latitude |-> Num(515074), longitude |-> Num(-1278),
   visit_count |-> 3, last_seen |-> 10000]

\* 0.6 degrees north of New York (about 67 km), visit_count zero,
\* no last_seen
North60 ==
  [latitude  |-> Str(<< "4", "1", ".", "3", "1", "2", "8" >>),
   longitude |-> Num(-740060), visit_count |-> 0]

\* 0.4 degrees north of New York (about 44 km from it, 22 km from North60)
North40 ==
  [latitude |-> Num(411128), longitude |-> Num(-740060),
   visit_count |-> 2, last_seen |-> 28000]

\* just west of the antimeridian (0, 179.9)
DateLineWest ==
  [latitude |-> Num(0), longitude |-> Num(1799000),
   visit_count |-> 1, last_seen |-> 26000]

\* just east of the antimeridian (0, -179.9), about 22 km from DateLineWest
DateLineEast ==
  [latitude  |-> Num(0),
   longitude |-> Str(<< "-", "1", "7", "9", ".", "9" >>),
   visit_count |-> 5, last_seen |-> 5000]

\* a row whose latitude does not parse
BadLatitude ==
  [latitude  |-> Str(<< "n", "/", "a" >>), longitude |-> Num(-1278),
   visit_count |-> 4, last_seen |-> 29000]

Catalog ==
  << NewYork, NewYork2, London, North60, North40, DateLineWest,
     DateLineEast, BadLatitude >>

\* the longest visitor list a call is made with
MaxLen == 3

\* the values of the zoom parameter the calls are made with
ZoomLevels == {5, 10, 30}

\* the rows of the calls that are made one after another
RepeatCatalog == << NewYork, NewYork2, London >>

\* the longest visitor list of a call that follows another call
MaxRepeatLen == 2

\* what a read of an absent property gives, undefined: parseFloat reads it
\* as the string "undefined", a test with isNaN as the number NaN
Undefined ==
  [type |-> "undefined",
   str  |-> << "u", "n", "d", "e", "f", "i", "n", "e", "d" >>,
   num  |-> NaN]

\* a row without longitude
NoLongitude ==
  [latitude |-> Num(515074), longitude |-> Undefined,
   visit_count |-> 2, last_seen |-> 29500]

\* a row with coordinates only: no visit_count, no last_seen, no country,
\* no city
Bare ==
  [latitude  |-> Str(<< "4", "0", ".", "7", "1", "2", "8" >>),
   longitude |-> Str(<< "-", "7", "4", ".", "0", "0", "6", "0" >>)]

\* the rows of the calls made with rows of every shape
ShapeCatalog == << NewYork, North60, BadLatitude, NoLongitude, Bare >>

\* the longest visitor list of a call with rows of every shape
MaxShapeLen == 3

\* the visitor lists of at most n of the given rows; a row's id is its
\* position in the list
VisitorLists(rows, n) ==
  { [j \in 1 .. Len(pick) |-> [id |-> j] @@ rows[pick[j]]] :
      pick \in UNION { [1 .. k -> 1 .. Len(rows)] : k \in 0 .. n } }

\* ------------------------------------------------------------------------
\* The calls, step by step
\* ------------------------------------------------------------------------

VARIABLES
  pc,         \* "idle", "loop" (radius), "assign" (grid), "done"
  variant,    \* which createClusters is running: "radius" or "grid"
  visitors,   \* the argument visitors
  zoomLevel,  \* the argument zoomLevel
  i,          \* the position of the next visitor to handle
  clusters,   \* the local clusters; at "done", the value returned
  grid,       \* the local grid of the grid variant
  lastFit,    \* what the last iteration of the radius loop saw and chose
  memo,       \* an earlier call and its result, kept for comparison
  localStorage,  \* the browser's localStorage item "visitorId"
  returned,      \* what the calls of getVisitorId returned, in their order
  table,         \* the rows of the table visitors
  handlers,      \* the record-visit requests received, in their order
  view,          \* the state of the component VisitorMap and its last render
  globe,         \* the globe of the component and the effects that make it
  upstream,      \* the requests the shape proxy sent to the sync service
  probe          \* the last call of calculateDistance made on its own

vars ==
  << pc, variant, visitors, zoomLevel, i, clusters, grid, lastFit, memo,
     localStorage, returned, table, handlers, view, globe, upstream, probe >>

\* the state of the page, of the proxy and of the distance calls
viewVars == << view, globe, upstream, probe >>

\* the state outside the clustering calls
visitVars == << localStorage, returned, table, handlers >>

\* the state of the clustering calls
clusterVars ==
  << pc, variant, visitors, zoomLevel, i, clusters, grid, lastFit, memo >>

\* localStorage.getItem of an item that is not there
Null == [type |-> "null"]

NoFit == [dist |-> << >>]

NoMemo == [set |-> FALSE]

\* no clustering call has been made
InitClusters ==
  /\ pc = "idle"
  /\ variant = "radius"
  /\ visitors = << >>
  /\ zoomLevel = 1 * ZOOM
  /\ i = 1
  /\ clusters = << >>
  /\ grid = << >>
  /\ lastFit = NoFit
  /\ memo = NoMemo

\* camera.position.length() before the camera has moved: the globe of
\* radius 100 seen from altitude 2.5
InitialDistance == 350

\* the first render of VisitorMap is to come: useShape has delivered
\* nothing yet, useState(1) is the zoom level, no memo is kept; the panel
\* has not been rendered
InitView ==
  view = [data      |-> [ref |-> 0, rows |-> << >>],
          zoomLevel |-> 1 * ZOOM,
          camera    |-> InitialDistance,
          moved     |-> FALSE,
          stale     |-> TRUE,
          deps      |-> [set |-> FALSE, ref |-> 0, zoom |-> 0],
          clusters  |-> << >>,
          pointData |-> << >>,
          now       |-> 0,
          props     |-> << >>,
          panelAt   |-> 0,
          panel     |-> << >>]

\* the component is in the tree and its first render is to come:
\* useState(false) for isMounted and globeInitialized, both refs null, no
\* import under way; useShape is loading
InitGlobe ==
  globe = [alive       |-> TRUE,
           stale       |-> TRUE,
           isMounted   |-> FALSE,
           isLoading   |-> TRUE,
           loads       |-> 0,
           div         |-> 0,
           divs        |-> 0,
           deps        |-> [set |-> FALSE, isMounted |-> FALSE, ref |-> 0],
           run         |-> 0,
           runs        |-> 0,
           pending     |-> {},
           cleaned     |-> {},
           instance    |-> 0,
           children    |-> {},
           initialized |-> FALSE,
           pointDeps   |-> [set |-> FALSE, instance |-> 0,
                            initialized |-> FALSE],
           newPoints   |-> FALSE,
           shown       |-> 0]

\* the page as it is loaded: no globe, no request of the proxy, no call
\* of calculateDistance
InitPage ==
  /\ InitView
  /\ InitGlobe
  /\ upstream = << >>
  /\ probe = [set |-> FALSE]

Init ==
  /\ InitClusters
  /\ localStorage = Null
  /\ returned = << >>
  /\ table = {}
  /\ handlers = << >>
  /\ InitPage

\* CallRadius with clusters outliving the call: the seed is pushed onto
\* the clusters of the call before
CallRadiusStale(list, zoom) ==
  /\ pc \in {"idle", "done"}
  /\ variant' = "radius"
  /\ visitors' = list
  /\ zoomLevel' = zoom
  /\ grid' = << >>
  /\ lastFit' = NoFit
  /\ i' = LoopStart
  /\ IF Len(list) = 0
     THEN clusters' = << >> /\ pc' = "done"
     ELSE clusters' = Append(clusters, SeedCluster(Point(list[1])))
          /\ pc' = "loop"
  /\ UNCHANGED memo
  /\ UNCHANGED visitVars
  /\ UNCHANGED viewVars

\* createClusters (radius) is entered: the empty-list return, or the points
\* are parsed and the first point seeds the first cluster
CallRadius(list, zoom) ==
  /\ pc \in {"idle", "done"}
  /\ variant' = "radius"
  /\ visitors' = list
  /\ zoomLevel' = zoom
  /\ grid' = << >>
  /\ lastFit' = NoFit
  /\ i' = LoopStart
  /\ IF Len(list) = 0
     THEN clusters' = << >> /\ pc' = "done"
     ELSE clusters' = << SeedCluster(Point(list[1])) >> /\ pc' = "loop"
  /\ UNCHANGED memo
  /\ UNCHANGED visitVars
  /\ UNCHANGED viewVars

\* LoopStep with a granularity that follows the view: above zoom 1 no
\* visitor joins a cluster, each is shown on its own
LoopStepZoomed ==
  /\ pc = "loop"
  /\ i <= Len(visitors)
  /\ clusters' = IF zoomLevel > 1 * ZOOM
                 THEN Append(clusters, SeedCluster(Point(visitors[i])))
                 ELSE AddPoint(clusters, Point(visitors[i]))
  /\ lastFit' =
       [dist |-> [j \in 1 .. Len(clusters) |->
                    DistanceTo(clusters[j], Point(visitors[i]))]]
  /\ i' = i + 1
  /\ UNCHANGED << pc, variant, visitors, zoomLevel, grid, memo >>
  /\ UNCHANGED visitVars
  /\ UNCHANGED viewVars

\* one iteration of for (let i = 1; i < points.length; i++)
LoopStep ==
  /\ pc = "loop"
  /\ i <= Len(visitors)
  /\ clusters' = AddPoint(clusters, Point(visitors[i]))
  /\ lastFit' =
       [dist |-> [j \in 1 .. Len(clusters) |->
                    DistanceTo(clusters[j], Point(visitors[i]))]]
  /\ i' = i + 1
  /\ UNCHANGED << pc, variant, visitors, zoomLevel, grid, memo >>
  /\ UNCHANGED visitVars
  /\ UNCHANGED viewVars

\* the loop is over: return clusters
ReturnRadius ==
  /\ pc = "loop"
  /\ i > Len(visitors)
  /\ pc' = "done"
  /\ UNCHANGED << variant, visitors, zoomLevel, i, clusters, grid, lastFit,
                  memo >>
  /\ UNCHANGED visitVars
  /\ UNCHANGED viewVars

\* createClusters (grid) is entered
CallGrid(list, zoom) ==
  /\ pc \in {"idle", "done"}
  /\ variant' = "grid"
  /\ visitors' = list
  /\ zoomLevel' = zoom
  /\ grid' = << >>
  /\ clusters' = << >>
  /\ lastFit' = NoFit
  /\ i' = 1
  /\ pc' = "assign"
  /\ UNCHANGED memo
  /\ UNCHANGED visitVars
  /\ UNCHANGED viewVars

\* AssignStep that writes the parsed coordinates into the visitor itself
\* instead of into a copy of it
AssignStepInPlace ==
  /\ pc = "assign"
  /\ i <= Len(visitors)
  /\ grid' = AssignToGrid(grid, visitors[i], getGridSize(zoomLevel))
  /\ visitors' =
       LET lat == ToNumber(visitors[i].latitude)
           lon == ToNumber(visitors[i].longitude)
       IN  IF IsNaN(lat) \/ IsNaN(lon) THEN visitors
           ELSE [visitors EXCEPT ![i].latitude  = Num(lat),
                                 ![i].longitude = Num(lon)]
  /\ i' = i + 1
  /\ UNCHANGED << pc, variant, zoomLevel, clusters, lastFit, memo >>
  /\ UNCHANGED visitVars
  /\ UNCHANGED viewVars

\* AssignStep that raises on a coordinate that is not a number: the
\* callback goes no further
AssignStepStrict ==
  /\ pc = "assign"
  /\ i <= Len(visitors)
  /\ ~IsNaN(ToNumber(visitors[i].latitude))
  /\ ~IsNaN(ToNumber(visitors[i].longitude))
  /\ grid' = AssignToGrid(grid, visitors[i], getGridSize(zoomLevel))
  /\ i' = i + 1
  /\ UNCHANGED << pc, variant, visitors, zoomLevel, clusters, lastFit, memo >>
  /\ UNCHANGED visitVars
  /\ UNCHANGED viewVars

\* one call of the visitors.forEach callback
AssignStep ==
  /\ pc = "assign"
  /\ i <= Len(visitors)
  /\ grid' = AssignToGrid(grid, visitors[i], getGridSize(zoomLevel))
  /\ i' = i + 1
  /\ UNCHANGED << pc, variant, visitors, zoomLevel, clusters, lastFit, memo >>
  /\ UNCHANGED visitVars
  /\ UNCHANGED viewVars

\* the cells are mapped to clusters, which are returned
ReturnGrid ==
  /\ pc = "assign"
  /\ i > Len(visitors)
  /\ clusters' = GridClusters(grid, RecentThreshold(visitors))
  /\ pc' = "done"
  /\ UNCHANGED << variant, visitors, zoomLevel, i, grid, lastFit, memo >>
  /\ UNCHANGED visitVars
  /\ UNCHANGED viewVars

\* the caller keeps the arguments and the result of the call that returned
Remember ==
  /\ pc = "done"
  /\ memo = NoMemo
  /\ memo' = [set |-> TRUE, variant |-> variant, visitors |-> visitors,
              zoomLevel |-> zoomLevel, result |-> clusters]
  /\ pc' = "idle"
  /\ UNCHANGED << variant, visitors, zoomLevel, i, clusters, grid, lastFit >>
  /\ UNCHANGED visitVars
  /\ UNCHANGED viewVars

\* One call from the initial state.  A call sets every variable but memo
\* anew, so a call made after a return reaches the states of a first call.
Next ==
  \/ /\ pc = "idle"
     /\ \E list \in VisitorLists(Catalog, MaxLen), zoom \in ZoomLevels :
          CallRadius(list, zoom)
  \/ LoopStep
  \/ ReturnRadius
  \/ /\ pc = "idle"
     /\ \E list \in VisitorLists(Catalog, MaxLen), zoom \in ZoomLevels :
          CallGrid(list, zoom)
  \/ AssignStep
  \/ ReturnGrid

Spec == Init /\ [][Next]_vars

\* Calls one after another, the caller keeping one result for comparison.
NextRepeat ==
  \/ /\ pc \in {"idle", "done"}
     /\ \E list \in VisitorLists(RepeatCatalog, MaxRepeatLen),
           zoom \in ZoomLevels : CallRadius(list, zoom)
  \/ LoopStep
  \/ ReturnRadius
  \/ /\ pc \in {"idle", "done"}
     /\ \E list \in VisitorLists(RepeatCatalog, MaxRepeatLen),
           zoom \in ZoomLevels : CallGrid(list, zoom)
  \/ AssignStep
  \/ ReturnGrid
  \/ Remember

SpecRepeat == Init /\ [][NextRepeat]_vars

\* One call from the initial state with rows of every shape: coordinates
\* absent or malformed, optional fields absent.
NextShapes ==
  \/ /\ pc = "idle"
     /\ \E list \in VisitorLists(ShapeCatalog, MaxShapeLen),
           zoom \in ZoomLevels : CallRadius(list, zoom)
  \/ LoopStep
  \/ ReturnRadius
  \/ /\ pc = "idle"
     /\ \E list \in VisitorLists(ShapeCatalog, MaxShapeLen),
           zoom \in ZoomLevels : CallGrid(list, zoom)
  \/ AssignStep
  \/ ReturnGrid

SpecShapes == Init /\ [][NextShapes]_vars

\* ------------------------------------------------------------------------
\* The identity of the client
\* ------------------------------------------------------------------------

Repeat(n, char) == [j \in 1 .. n |-> char]

\* a string of the form uuidv4() returns, of one hexadecimal digit
Uuid4(char) ==
  Repeat(8, char) \o << "-" >> \o Repeat(4, char) \o << "-", "4" >>
    \o Repeat(3, char) \o << "-", "8" >> \o Repeat(3, char) \o << "-" >>
    \o Repeat(12, char)

\* the values uuidv4() returns
UuidV4 == { Str(Uuid4("a")), Str(Uuid4("b")), Str(Uuid4("7")) }

\* !id, for id a string or null
Falsy(id) == id = Null \/ id = Str(<< >>)

\* the condition under which getVisitorId makes a new identifier: in the
\* first component !id || id === ``, in the second !id
MustCreate(version, id) ==
  IF version = 1 THEN Falsy(id) \/ id = Str(<< >>) ELSE Falsy(id)

\* the most calls of getVisitorId that are followed
MaxCalls == 4

\* GetVisitorId without localStorage.setItem: the new identifier is
\* returned and not stored
GetVisitorIdUnstored(version, fresh) ==
  /\ Len(returned) < MaxCalls
  /\ returned' =
       Append(returned,
              [version |-> version,
               id      |-> IF MustCreate(version, localStorage)
                           THEN fresh ELSE localStorage,
               created |-> MustCreate(version, localStorage)])
  /\ UNCHANGED << localStorage, table, handlers >>
  /\ UNCHANGED clusterVars
  /\ UNCHANGED viewVars

\* one call of getVisitorId, of the first or the second component; fresh
\* is what uuidv4() returns if it is called
GetVisitorId(version, fresh) ==
  LET id     == localStorage
      create == MustCreate(version, id)
  IN  /\ Len(returned) < MaxCalls
      /\ localStorage' = IF create THEN fresh ELSE localStorage
      /\ returned' =
           Append(returned,
                  [version |-> version,
                   id      |-> IF create THEN fresh ELSE id,
                   created |-> create])
      /\ UNCHANGED << table, handlers >>
      /\ UNCHANGED clusterVars
      /\ UNCHANGED viewVars

\* what the item "visitorId" may hold when the page is loaded: nothing, an
\* empty string, or an identifier stored by an earlier visit
StoredAtStart == {Null, Str(<< >>)} \cup UuidV4

InitIdentity ==
  /\ InitClusters
  /\ localStorage \in StoredAtStart
  /\ returned = << >>
  /\ table = {}
  /\ handlers = << >>
  /\ InitPage

NextIdentity ==
  \E version \in {1, 2}, fresh \in UuidV4 : GetVisitorId(version, fresh)

SpecIdentity == InitIdentity /\ [][NextIdentity]_vars

\* ------------------------------------------------------------------------
\* The record-visit endpoint
\* ------------------------------------------------------------------------

HexDigits ==
  Digits \cup {"a", "b", "c", "d", "e", "f", "A", "B", "C", "D", "E", "F"}

\* the places of the hyphens in a UUID
Hyphens == {9, 14, 19, 24}

\* the string has the form of a UUID: 8-4-4-4-12 hexadecimal digits
IsUuid(str) ==
  /\ Len(str) = 36
  /\ \A j \in 1 .. Len(str) :
       IF j \in Hyphens THEN str[j] = "-" ELSE str[j] \in HexDigits

\* z.string().uuid()
ZUuid(field) == field.type = "string" /\ IsUuid(field.str)

\* ZNumberBetween without .max(): only the lower limit is tested
ZNumberAtLeast(field, min, max) ==
  /\ field.type = "number"
  /\ ~IsNaN(field.num)
  /\ field.num >= min * DEG

\* z.number().min(min).max(max), the limits in degrees
ZNumberBetween(field, min, max) ==
  /\ field.type = "number"
  /\ ~IsNaN(field.num)
  /\ field.num >= min * DEG
  /\ field.num <= max * DEG

\* z.string().min(1)
ZText(field) == field.type = "string" /\ Len(field.str) >= 1

\* z.string().min(1).optional()
ZOptionalText(field) == field = Undefined \/ ZText(field)

\* visitSchema of the servers that take the coordinates from the request
visitSchema(body) ==
  /\ ZUuid(body.visitorId)
  /\ ZNumberBetween(body.latitude, -90, 90)
  /\ ZNumberBetween(body.longitude, -180, 180)
  /\ ZOptionalText(body.country)
  /\ ZOptionalText(body.city)

\* visitSchema of the server that takes the coordinates from Cloudflare
visitSchemaCf(body) == ZUuid(body.visitorId)

\* geoDataSchema
geoDataSchema(geoData) ==
  /\ ZNumberBetween(geoData.latitude, -90, 90)
  /\ ZNumberBetween(geoData.longitude, -180, 180)
  /\ ZText(geoData.country)
  /\ ZText(geoData.city)

\* a request that did not come through Cloudflare: c.req.raw.cf is absent
NoCf == [type |-> "undefined"]

\* geoData: the coordinates parsed from the strings Cloudflare gives
GeoData(cf) ==
  [latitude  |-> Num(ParseFloat(cf.latitude)),
   longitude |-> Num(ParseFloat(cf.longitude)),
   country   |-> cf.country,
   city      |-> cf.city]

\* the three servers: src/server/index.ts ("hono"), the server that reads
\* the place from Cloudflare ("cloudflare"), the express server ("express")
Servers == {"hono", "cloudflare", "express"}

\* the request passes the validation of the server
Accepts(server, request) ==
  IF server = "cloudflare"
  THEN /\ visitSchemaCf(request.body)
       /\ request.cf # NoCf
       /\ geoDataSchema(GeoData(request.cf))
  ELSE visitSchema(request.body)

\* the values the server inserts
Validated(server, request) ==
  IF server = "cloudflare"
  THEN [visitorId |-> request.body.visitorId,
        latitude  |-> GeoData(request.cf).latitude,
        longitude |-> GeoData(request.cf).longitude,
        country   |-> request.cf.country,
        city      |-> request.cf.city]
  ELSE request.body

\* a string value
Text(chars) == Str(chars)

\* the place names of the requests
Country == Text(<< "U", "S" >>)

City == Text(<< "N", "Y" >>)

\* a request: the JSON body, and what Cloudflare knows of the sender
Request(visitorId, latitude, longitude, cf) ==
  [body |-> [visitorId |-> visitorId, latitude |-> latitude,
             longitude |-> longitude, country |-> Country, city |-> City],
   cf   |-> cf]

Cf(latitude, longitude) ==
  [latitude |-> Text(latitude), longitude |-> Text(longitude),
   country |-> Country, city |-> City]

\* a visit from New York
GoodVisit ==
  Request(Str(Uuid4("a")), Num(407128), Num(-740060),
          Cf(<< "4", "0", ".", "7", "1", "2", "8" >>,
             << "-", "7", "4", ".", "0", "0", "6", "0" >>))

\* a later visit of the same client, from the edge of both ranges
EdgeVisit ==
  Request(Str(Uuid4("a")), Num(900000), Num(-1800000),
          Cf(<< "9", "0" >>, << "-", "1", "8", "0" >>))

\* a visitorId of the right length that is no UUID
BadIdVisit ==
  Request(Str(Uuid4("g")), Num(407128), Num(-740060),
          Cf(<< "4", "0", ".", "7", "1", "2", "8" >>,
             << "-", "7", "4", ".", "0", "0", "6", "0" >>))

\* no visitorId
NoIdVisit ==
  Request(Undefined, Num(407128), Num(-740060),
          Cf(<< "4", "0", ".", "7", "1", "2", "8" >>,
             << "-", "7", "4", ".", "0", "0", "6", "0" >>))

\* a latitude just above 90
LatHighVisit ==
  Request(Str(Uuid4("b")), Num(900001), Num(-740060),
          Cf(<< "9", "0", ".", "0", "0", "0", "1" >>,
             << "-", "7", "4", ".", "0", "0", "6", "0" >>))

\* a longitude just below -180
LonLowVisit ==
  Request(Str(Uuid4("b")), Num(407128), Num(-1800001),
          Cf(<< "4", "0", ".", "7", "1", "2", "8" >>,
             << "-", "1", "8", "0", ".", "0", "0", "0", "1" >>))

\* no place at all: none in the body, none from Cloudflare
NoGeoVisit == Request(Str(Uuid4("b")), Undefined, Undefined, NoCf)

Requests ==
  { GoodVisit, EdgeVisit, BadIdVisit, NoIdVisit, LatHighVisit, LonLowVisit,
    NoGeoVisit }

\* the values uuidv4() returns in the server
RowIds == { Str(Uuid4("1")), Str(Uuid4("2")) }

\* the most requests that are followed
MaxRequests == 2

\* the row the INSERT statement adds; visit_count takes the default of
\* the column, last_seen is NOW(), counted in inserts
Row(id, values) ==
  [id |-> id, visitor_id |-> values.visitorId,
   latitude |-> values.latitude.num, longitude |-> values.longitude.num,
   country |-> values.country, city |-> values.city,
   last_seen |-> Cardinality(table) + 1, visit_count |-> 1]

\* the table refuses a row whose id is the primary key of a row it holds
KeyTaken(id) == \E row \in table : row.id = id

\* the handler up to its await: the request is validated and answered
\* with 400, or the INSERT statement is made, with a new id, and sent
Receive(server, request, id) ==
  /\ Len(handlers) < MaxRequests
  /\ handlers' =
       Append(handlers,
              IF Accepts(server, request)
              THEN [server |-> server, request |-> request, pc |-> "insert",
                    status |-> 0, id |-> id]
              ELSE [server |-> server, request |-> request,
                    pc |-> "responded", status |-> 400, id |-> Null])
  /\ UNCHANGED << localStorage, returned, table >>
  /\ UNCHANGED clusterVars
  /\ UNCHANGED viewVars

\* Insert as an upsert by client: a row of the same visitor_id is replaced
\* by the new row, with its visit_count raised
InsertUpsert(k, fails) ==
  /\ k \in 1 .. Len(handlers)
  /\ handlers[k].pc = "insert"
  /\ LET new == Row(handlers[k].id,
                    Validated(handlers[k].server, handlers[k].request))
         old == { row \in table : row.visitor_id = new.visitor_id }
     IN  IF fails \/ KeyTaken(handlers[k].id)
         THEN /\ table' = table
              /\ handlers' = [handlers EXCEPT ![k].pc = "responded",
                                              ![k].status = 500]
         ELSE /\ table' =
                   (table \ old)
                     \cup { [new EXCEPT !.visit_count = Cardinality(old) + 1] }
              /\ handlers' = [handlers EXCEPT ![k].pc = "responded",
                                              ![k].status = 200]
  /\ UNCHANGED << localStorage, returned >>
  /\ UNCHANGED clusterVars
  /\ UNCHANGED viewVars

\* Insert with a failure of the statement answered like a success
InsertSwallow(k, fails) ==
  /\ k \in 1 .. Len(handlers)
  /\ handlers[k].pc = "insert"
  /\ IF fails \/ KeyTaken(handlers[k].id)
     THEN /\ table' = table
          /\ handlers' = [handlers EXCEPT ![k].pc = "responded",
                                          ![k].status = 200]
     ELSE /\ table' =
               table \cup { Row(handlers[k].id,
                                Validated(handlers[k].server,
                                          handlers[k].request)) }
          /\ handlers' = [handlers EXCEPT ![k].pc = "responded",
                                          ![k].status = 200]
  /\ UNCHANGED << localStorage, returned >>
  /\ UNCHANGED clusterVars
  /\ UNCHANGED viewVars

\* the database runs the INSERT of handler k and the handler answers: 200
\* with the row added, 500 when the statement fails (fails: the database
\* cannot be reached; or the id is taken)
Insert(k, fails) ==
  /\ k \in 1 .. Len(handlers)
  /\ handlers[k].pc = "insert"
  /\ IF fails \/ KeyTaken(handlers[k].id)
     THEN /\ table' = table
          /\ handlers' = [handlers EXCEPT ![k].pc = "responded",
                                          ![k].status = 500]
     ELSE /\ table' =
               table \cup { Row(handlers[k].id,
                                Validated(handlers[k].server,
                                          handlers[k].request)) }
          /\ handlers' = [handlers EXCEPT ![k].pc = "responded",
                                          ![k].status = 200]
  /\ UNCHANGED << localStorage, returned >>
  /\ UNCHANGED clusterVars
  /\ UNCHANGED viewVars

NextServer ==
  \/ \E server \in Servers, request \in Requests, id \in RowIds :
       Receive(server, request, id)
  \/ \E k \in 1 .. MaxRequests, fails \in BOOLEAN : Insert(k, fails)

SpecServer == Init /\ [][NextServer]_vars

\* ------------------------------------------------------------------------
\* The calls of calculateDistance
\* ------------------------------------------------------------------------

\* the points of the calls, as latitude and longitude: New York, the second
\* point of New York, London, the equator at the longitudes 0, 90 and 180,
\* both poles, and two pairs of opposite points of the globe
Places ==
  { << 407128, -740060 >>, << 407300, -739350 >>, << 515074, -1278 >>,
    << 0, 0 >>, << 0, 900000 >>, << 0, 1800000 >>,
    << 900000, 0 >>, << -900000, 0 >>,
    << 693000, 0 >>, << -693000, 1800000 >>,
    << 450000, -900000 >>, << -450000, 900000 >> }

\* calculateDistance is called with two points, each way
CallDistance(from, to) ==
  /\ probe' = [set      |-> TRUE,
               from     |-> from,
               to       |-> to,
               distance |-> calculateDistance(from[1], from[2], to[1], to[2]),
               back     |-> calculateDistance(to[1], to[2], from[1], from[2])]
  /\ UNCHANGED << view, globe, upstream >>
  /\ UNCHANGED clusterVars
  /\ UNCHANGED visitVars

NextDistance == \E from \in Places, to \in Places : CallDistance(from, to)

SpecDistance == Init /\ [][NextDistance]_vars

\* ------------------------------------------------------------------------
\* The visit of a page: the identifier, the request, the server
\* ------------------------------------------------------------------------

\* JSON.stringify({ visitorId }): the body carries the identifier and
\* nothing else, so every other key reads as undefined
ClientBody(visitorId) ==
  [visitorId |-> visitorId, latitude |-> Undefined, longitude |-> Undefined,
   country |-> Undefined, city |-> Undefined]

\* what Cloudflare knows of the sender of the page's request: New York, or
\* nothing
ClientCf ==
  { Cf(<< "4", "0", ".", "7", "1", "2", "8" >>,
       << "-", "7", "4", ".", "0", "0", "6", "0" >>),
    NoCf }

\* the effect of a loaded page whose identifier is set: the request is
\* sent, and the server takes it up
RecordVisit(server, cf, id) ==
  /\ Len(handlers) < Len(returned)
  /\ LET visitorId == returned[Len(handlers) + 1].id
     IN  /\ ~Falsy(visitorId)
         /\ Receive(server, [body |-> ClientBody(visitorId), cf |-> cf], id)

\* Each call of getVisitorId is a load of the page, whose request follows.
NextVisit ==
  \/ \E version \in {1, 2}, fresh \in UuidV4 : GetVisitorId(version, fresh)
  \/ \E server \in Servers, cf \in ClientCf, id \in RowIds :
       RecordVisit(server, cf, id)
  \/ \E k \in 1 .. MaxRequests, fails \in BOOLEAN : Insert(k, fails)

SpecVisit == InitIdentity /\ [][NextVisit]_vars

\* ------------------------------------------------------------------------
\* The shape proxy
\* ------------------------------------------------------------------------

\* the database_id and the token the server is configured with
DatabaseId == "database-of-the-server"

Token == "token-of-the-server"

\* the query strings of the page's requests, as lists of key and value:
\* what the sync client sends, and parameters named like the server's
Queries ==
  { << >>,
    << << "offset", "-1" >> >>,
    << << "offset", "0_0" >>, << "handle", "h1" >> >>,
    << << "table", "accounts" >> >>,
    << << "offset", "-1" >>, << "database_id", "other-database" >> >>,
    << << "token", "token-of-the-client" >> >> }

\* the most requests the proxy is followed for
MaxShapeRequests == 2

\* searchParams.set(key, value): the value of the key is replaced, or the
\* key is added
SetParam(params, key, value) ==
  [k \in DOMAIN params \cup {key} |-> IF k = key THEN value ELSE params[k]]

RECURSIVE CopyQuery(_, _)
\* for (const [key, value] of Object.entries(query)) set(key, value)
CopyQuery(params, query) ==
  IF query = << >> THEN params
  ELSE SetParam(CopyQuery(params, SubSeq(query, 1, Len(query) - 1)),
                query[Len(query)][1], query[Len(query)][2])

\* searchParams with no key
NoParams == [k \in {} |-> ""]

\* the search parameters of originUrl in the hono servers: the three
\* parameters of the server, then the copy of the query
OriginUrlHono(query) ==
  CopyQuery(SetParam(SetParam(SetParam(NoParams, "table", "visitors"),
                              "database_id", DatabaseId),
                     "token", Token),
            query)

\* the search parameters of originUrl in the express server: the table,
\* then the copy of the query, then the database_id and the token when the
\* environment has them
OriginUrlExpress(query, configured) ==
  LET copied == CopyQuery(SetParam(NoParams, "table", "visitors"), query)
  IN  IF configured
      THEN SetParam(SetParam(copied, "database_id", DatabaseId),
                    "token", Token)
      ELSE copied

\* the search parameters of the URL the proxy fetches
OriginUrl(server, query, configured) ==
  IF server = "express" THEN OriginUrlExpress(query, configured)
  ELSE OriginUrlHono(query)

\* GET /api/visitors/shape: the request is forwarded to the sync service.
\* The environment of the express server may lack the database_id and the
\* token; the hono servers always have them.
Proxy(server, query, configured) ==
  /\ Len(upstream) < MaxShapeRequests
  /\ server # "express" => configured
  /\ upstream' = Append(upstream,
                        [server     |-> server,
                         query      |-> query,
                         configured |-> configured,
                         params     |-> OriginUrl(server, query, configured)])
  /\ UNCHANGED << view, globe, probe >>
  /\ UNCHANGED clusterVars
  /\ UNCHANGED visitVars

NextProxy ==
  \E server \in Servers, query \in Queries, configured \in BOOLEAN :
    Proxy(server, query, configured)

SpecProxy == Init /\ [][NextProxy]_vars

\* ------------------------------------------------------------------------
\* The component VisitorMap: the synced visitors, the zoom level, the renders
\* ------------------------------------------------------------------------

\* London with the names of its place
LondonNamed == [city |-> "London", country |-> "United Kingdom"] @@ London

\* the rows the sync service delivers to the page
PageCatalog == << NewYork, NewYork2, LondonNamed >>

\* the most rows the sync service delivers to the page
MaxRows == 3

\* the distances of the camera from the centre of the globe at a change
CameraDistances == {0, 120, 200, 600, 1000, 1080, 5000}

\* the farthest and the nearest camera distance of the zoom scale
maxDistance == 1000

minDistance == 200

\* Math.max(low, Math.min(high, n))
Clamp(low, high, n) ==
  LET least == IF n < high THEN n ELSE high
  IN  IF least > low THEN least ELSE low

\* NormalizedZoom without the clamp
NormalizedZoomRaw(distance) ==
  ZOOM - ((distance - minDistance) * ZOOM) \div (maxDistance - minDistance)

\* the zoom level handleCameraChange sets for a camera distance: 1 minus
\* the share of the distance in the scale, clamped into [0.1, 1]
NormalizedZoom(distance) ==
  Clamp(ZOOM \div 10, 1 * ZOOM,
        ZOOM - ((distance - minDistance) * ZOOM)
                 \div (maxDistance - minDistance))

\* cluster.visitors[0]?.city || 'Unknown City'
CityOf(members) ==
  IF members # << >> /\ "city" \in DOMAIN members[1] /\ members[1].city # ""
  THEN members[1].city
  ELSE "Unknown City"

\* cluster.visitors[0]?.country || 'Unknown Country'
CountryOf(members) ==
  IF members # << >> /\ "country" \in DOMAIN members[1]
     /\ members[1].country # ""
  THEN members[1].country
  ELSE "Unknown Country"

\* the point the globe shows for a cluster
PointOf(cluster) ==
  [latitude      |-> cluster.latitude,
   longitude     |-> cluster.longitude,
   visit_count   |-> cluster.totalVisits,
   city          |-> CityOf(cluster.visitors),
   country       |-> CountryOf(cluster.visitors),
   totalVisitors |-> Len(cluster.visitors)]

\* clusters.map(cluster => ({...}))
PointData(clusterList) ==
  [k \in 1 .. Len(clusterList) |-> PointOf(clusterList[k])]

\* DepsChanged with the zoom level as the only dependency
DepsChangedZoomOnly(v) ==
  \/ ~v.deps.set
  \/ v.deps.zoom # v.zoomLevel

\* useMemo(..., [visitors, zoomLevel]): the memo is computed anew at the
\* first render and when the visitors array or the zoom level is not the
\* one of the last render
DepsChanged(v) ==
  \/ ~v.deps.set
  \/ v.deps.ref # v.data.ref
  \/ v.deps.zoom # v.zoomLevel

\* useShape delivers a new array: the rows so far and one more
ShapeUpdate(row) ==
  /\ Len(view.data.rows) < MaxRows
  /\ view' = [view EXCEPT
       !.data  = [ref  |-> @.ref + 1,
                  rows |-> Append(@.rows, [id |-> Len(@.rows) + 1] @@ row)],
       !.stale = TRUE]
  /\ UNCHANGED << globe, upstream, probe >>
  /\ UNCHANGED clusterVars
  /\ UNCHANGED visitVars

\* the camera has moved to the given distance and the controls fire
\* "change": setZoomLevel schedules a render when the level is a new one
handleCameraChange(distance) ==
  /\ view' = [view EXCEPT
       !.camera    = distance,
       !.moved     = TRUE,
       !.zoomLevel = NormalizedZoom(distance),
       !.stale     = @ \/ NormalizedZoom(distance) # view.zoomLevel]
  /\ UNCHANGED << globe, upstream, probe >>
  /\ UNCHANGED clusterVars
  /\ UNCHANGED visitVars

\* new Date(visitor.last_seen).getTime(): milliseconds, NaN when absent
PanelTime(visitor) ==
  IF "last_seen" \in DOMAIN visitor THEN visitor.last_seen ELSE NaN

\* IsRecent taking a visit of exactly one hour ago too
IsRecentInclusive(visitor, now) ==
  LET visitTime  == PanelTime(visitor)
      oneHourAgo == now - 60 * 60 * 1000
  IN  ~IsNaN(visitTime) /\ visitTime >= oneHourAgo

\* the test of the filter: visitTime > oneHourAgo, false for NaN
IsRecent(visitor, now) ==
  LET visitTime  == PanelTime(visitor)
      oneHourAgo == now - 60 * 60 * 1000
  IN  ~IsNaN(visitTime) /\ visitTime > oneHourAgo

RECURSIVE FilterRecent(_, _)
\* visitors.filter(...): the recent visitors, in the order of the list
FilterRecent(list, now) ==
  IF list = << >> THEN << >>
  ELSE LET rest == FilterRecent(SubSeq(list, 1, Len(list) - 1), now)
           last == list[Len(list)]
       IN  IF IsRecent(last, now) THEN Append(rest, last) ELSE rest

\* the sorted list with one more visitor: after the visitors that are not
\* older than it, before the older ones
PlaceByTime(sorted, visitor) ==
  LET ahead == Cardinality({ k \in 1 .. Len(sorted) :
                               PanelTime(sorted[k]) >= PanelTime(visitor) })
  IN  SubSeq(sorted, 1, ahead) \o << visitor >>
        \o SubSeq(sorted, ahead + 1, Len(sorted))

RECURSIVE SortByTime(_)
\* .sort((a, b) => time(b) - time(a)): latest first, equal times in the
\* order of the list
SortByTime(list) ==
  IF list = << >> THEN << >>
  ELSE PlaceByTime(SortByTime(SubSeq(list, 1, Len(list) - 1)),
                   list[Len(list)])

\* the list the panel RecentVisitors shows for its visitors at a time
recentVisitors(list, now) == SortByTime(FilterRecent(list, now))

\* a render of VisitorMap: both memos, each kept unless what it depends on
\* has changed, and the panel with the visitors of the render
Render ==
  /\ view.stale
  /\ \E anew \in {DepsChanged(view)} :
     \E current \in {IF anew
                     THEN createClusters(view.data.rows, view.zoomLevel)
                     ELSE view.clusters} :
         view' = [view EXCEPT
           !.clusters  = current,
           !.pointData = IF anew THEN PointData(current) ELSE @,
           !.deps      = [set  |-> TRUE,
                          ref  |-> view.data.ref,
                          zoom |-> view.zoomLevel],
           !.stale     = FALSE,
           !.props     = view.data.rows,
           !.panelAt   = view.now,
           !.panel     = recentVisitors(view.data.rows, view.now)]
  /\ UNCHANGED << globe, upstream, probe >>
  /\ UNCHANGED clusterVars
  /\ UNCHANGED visitVars

\* Date.now() has gone on to the given time
Tick(time) ==
  /\ time > view.now
  /\ view' = [view EXCEPT !.now = time]
  /\ UNCHANGED << globe, upstream, probe >>
  /\ UNCHANGED clusterVars
  /\ UNCHANGED visitVars

\* the interval of the mounted panel fires: setUpdateKey renders the
\* panel again, with the visitors it was last given
Interval ==
  /\ view.deps.set
  /\ view' = [view EXCEPT
       !.panelAt = view.now,
       !.panel   = recentVisitors(view.props, view.now)]
  /\ UNCHANGED << globe, upstream, probe >>
  /\ UNCHANGED clusterVars
  /\ UNCHANGED visitVars

NextPage ==
  \/ \E j \in 1 .. Len(PageCatalog) : ShapeUpdate(PageCatalog[j])
  \/ \E distance \in CameraDistances : handleCameraChange(distance)
  \/ Render

SpecPage == Init /\ [][NextPage]_vars

\* the rows the sync service delivers to the page with the panel: seen at
\* 30.0 s, at 29.0 s (latitude not a number), at 10.0 s, and never
PanelCatalog == << NewYork, BadLatitude, London, North60 >>

\* the times of the clock: before the last visit, and one hour after the
\* visit of London, of BadLatitude and of NewYork
Clocks == {20000, 3610000, 3629000, 3630000}

NextPanel ==
  \/ \E j \in 1 .. Len(PanelCatalog) : ShapeUpdate(PanelCatalog[j])
  \/ \E time \in Clocks : Tick(time)
  \/ Render
  \/ Interval

SpecPanel == Init /\ [][NextPanel]_vars

\* ------------------------------------------------------------------------
\* The calls of the grid variant at every cell size
\* ------------------------------------------------------------------------

\* Boston (42.3601, -71.0589): in the cell of New York at the sizes 20, 10
\* and 5, not at the size 2
Boston ==
  [latitude |-> Num(423601), longitude |-> Num(-710589),
   visit_count |-> 2, last_seen |-> 29000]

\* Toronto (43.6532, -79.3832): in the cell of New York at the sizes 20
\* and 10, not at the size 5
Toronto ==
  [latitude  |-> Str(<< "4", "3", ".", "6", "5", "3", "2" >>),
   longitude |-> Str(<< "-", "7", "9", ".", "3", "8", "3", "2" >>),
   visit_count |-> 1, last_seen |-> 28000]

\* Halifax (44.6488, -63.5752): in the cell of New York at the size 20 only
Halifax ==
  [latitude |-> Num(446488), longitude |-> Num(-635752),
   visit_count |-> 1, last_seen |-> 27000]

\* Paris (48.8566, 2.3522): east of the meridian of London, which is west
\* of it
Paris ==
  [latitude |-> Num(488566), longitude |-> Num(23522),
   visit_count |-> 1, last_seen |-> 26000]

\* the rows of the calls of the grid variant
GridCatalog ==
  << NewYork, Boston, Toronto, Halifax, London, Paris, BadLatitude >>

\* the longest visitor list of a call of the grid variant
MaxGridLen == 3

\* the zoom values of the calls of the grid variant, in tenths: 1, 2 and 4,
\* where the cell size changes, and the next value after each
GridZooms == {10, 11, 20, 21, 40, 41}

\* One call from the initial state, as in Next.
NextGrid ==
  \/ /\ pc = "idle"
     /\ \E list \in VisitorLists(GridCatalog, MaxGridLen), zoom \in GridZooms :
          CallGrid(list, zoom)
  \/ AssignStep
  \/ ReturnGrid

SpecGrid == Init /\ [][NextGrid]_vars

\* ------------------------------------------------------------------------
\* The globe of the component: its element, its effects, its imports
\* ------------------------------------------------------------------------
\* An element and an effect run are numbered from 1; 0 is null.  A globe
\* instance bears the number of the effect run whose import made it.

\* the most elements the ref is attached to
MaxDivs == 2

\* the most runs of the effect that start an import
MaxRuns == 2

\* the most changes of isLoading
MaxLoads == 3

\* A render of VisitorMap, its commit and its effects.  The dependencies of
\* the effects are read while rendering, so before the commit attaches or
\* detaches the ref; the effects run after it.  The element is rendered
\* when the component is mounted and not loading.
RenderCommit ==
  /\ globe.alive
  /\ globe.stale
  /\ LET first    == ~globe.deps.set
         main     == globe.isMounted /\ ~globe.isLoading
         attach   == main /\ globe.div = 0
         div      == IF ~main THEN 0
                     ELSE IF attach THEN globe.divs + 1 ELSE globe.div
         inDiv    == IF div = globe.div THEN globe.children ELSE {}
         changed  == \/ first
                     \/ globe.deps.isMounted # globe.isMounted
                     \/ globe.deps.ref # globe.div
         cleanup  == changed /\ globe.run # 0
         cleared  == cleanup /\ div # 0
         starts   == changed /\ globe.isMounted /\ div # 0
         instance == IF cleared THEN 0 ELSE globe.instance
         pointRun == \/ ~globe.pointDeps.set
                     \/ globe.newPoints
                     \/ globe.pointDeps.instance # globe.instance
                     \/ globe.pointDeps.initialized # globe.initialized
     IN  /\ attach => globe.divs < MaxDivs
         /\ starts => globe.runs < MaxRuns
         /\ globe' = [globe EXCEPT
              !.stale     = first,
              !.isMounted = TRUE,
              !.div       = div,
              !.divs      = IF attach THEN @ + 1 ELSE @,
              !.deps      = [set |-> TRUE, isMounted |-> globe.isMounted,
                             ref |-> globe.div],
              !.run       = IF ~changed THEN @
                            ELSE IF starts THEN globe.runs + 1 ELSE 0,
              !.runs      = IF starts THEN @ + 1 ELSE @,
              !.pending   = IF starts THEN @ \cup {globe.runs + 1} ELSE @,
              !.cleaned   = IF cleanup THEN @ \cup {globe.run} ELSE @,
              !.instance  = instance,
              !.children  = IF cleared THEN {} ELSE inDiv,
              !.pointDeps = [set |-> TRUE, instance |-> globe.instance,
                             initialized |-> globe.initialized],
              !.newPoints = FALSE,
              !.shown     = IF pointRun /\ instance # 0 /\ globe.initialized
                            THEN instance ELSE @]
  /\ UNCHANGED << view, upstream, probe >>
  /\ UNCHANGED clusterVars
  /\ UNCHANGED visitVars

\* the imports of a run of the effect are there and its .then runs: a globe
\* is made in the element of the ref and stored, and setGlobeInitialized
\* schedules a render; with no element Globe throws, which .catch logs
ImportResolves(r) ==
  /\ r \in globe.pending
  /\ globe' = IF globe.div = 0
              THEN [globe EXCEPT !.pending = @ \ {r}]
              ELSE [globe EXCEPT
                     !.pending     = @ \ {r},
                     !.children    = @ \cup {r},
                     !.instance    = r,
                     !.initialized = TRUE,
                     !.stale       = @ \/ (globe.alive /\ ~globe.initialized)]
  /\ UNCHANGED << view, upstream, probe >>
  /\ UNCHANGED clusterVars
  /\ UNCHANGED visitVars

\* useShape changes isLoading: the first sync is done, or the shape is
\* fetched anew
Loading ==
  /\ globe.alive
  /\ globe.loads < MaxLoads
  /\ globe' = [globe EXCEPT !.isLoading = ~@, !.loads = @ + 1,
                            !.stale = TRUE]
  /\ UNCHANGED << view, upstream, probe >>
  /\ UNCHANGED clusterVars
  /\ UNCHANGED visitVars

\* new visitors or a new zoom level: a render with new point data is due
NewPoints ==
  /\ globe.alive
  /\ ~globe.newPoints
  /\ globe' = [globe EXCEPT !.newPoints = TRUE, !.stale = TRUE]
  /\ UNCHANGED << view, upstream, probe >>
  /\ UNCHANGED clusterVars
  /\ UNCHANGED visitVars

\* the component leaves the tree: the ref is detached, then the cleanup of
\* the effect runs, which finds no element and so does nothing
Unmount ==
  /\ globe.alive
  /\ globe' = [globe EXCEPT
       !.alive    = FALSE,
       !.stale    = FALSE,
       !.div      = 0,
       !.children = {},
       !.cleaned  = IF globe.run # 0 THEN @ \cup {globe.run} ELSE @,
       !.run      = 0]
  /\ UNCHANGED << view, upstream, probe >>
  /\ UNCHANGED clusterVars
  /\ UNCHANGED visitVars

NextGlobe ==
  \/ RenderCommit
  \/ \E r \in 1 .. MaxRuns : ImportResolves(r)
  \/ Loading
  \/ NewPoints
  \/ Unmount

SpecGlobe == Init /\ [][NextGlobe]_vars

\* ------------------------------------------------------------------------
\* Properties
\* ------------------------------------------------------------------------

\* both coordinates of the visitor parse to a number
ValidCoordinates(visitor) ==
  /\ ~IsNaN(ParseFloat(visitor.latitude))
  /\ ~IsNaN(ParseFloat(visitor.longitude))

\* the places (cluster, position) at which the visitor is a member
PlacesOf(visitor, clusterList) ==
  { place \in (1 .. Len(clusterList)) \X (1 .. MaxLen + 2) :
      /\ place[2] <= Len(clusterList[place[1]].visitors)
      /\ clusterList[place[1]].visitors[place[2]] = visitor }

\* the members of all clusters
MembersOf(clusterList) ==
  UNION { { clusterList[k].visitors[m] :
              m \in 1 .. Len(clusterList[k].visitors) } :
          k \in 1 .. Len(clusterList) }

RadiusReturned == pc = "done" /\ variant = "radius"

\* C1: for a non-empty visitor list the radius variant returns clusters
\* whose members are exactly the visitors with valid coordinates, each in
\* one cluster, once; no other visitor is a member of a cluster.
C1_MembersAreTheValidVisitors ==
  (RadiusReturned /\ Len(visitors) > 0) =>
    /\ \A j \in 1 .. Len(visitors) :
         Cardinality(PlacesOf(visitors[j], clusters))
           = (IF ValidCoordinates(visitors[j]) THEN 1 ELSE 0)
    /\ MembersOf(clusters) \subseteq { visitors[j] : j \in 1 .. Len(visitors) }

\* C2: a visitor whose latitude or longitude parses to NaN is dropped from
\* the clustering pass: it is a member of no cluster and seeds none, and the
\* clusters are those of the list without it.
C2_InvalidVisitorIsDropped ==
  RadiusReturned =>
    /\ \A v \in MembersOf(clusters) : ValidCoordinates(v)
    /\ clusters = createClusters(SelectSeq(visitors, ValidCoordinates),
                                 zoomLevel)

\* the visitor the last iteration of the radius loop handled
FitVisitor == visitors[i - 1]

\* the clusters whose centre the last iteration found within 50 km of its
\* point
FitWithin ==
  { j \in 1 .. Len(lastFit.dist) :
      ~IsNaN(lastFit.dist[j]) /\ lastFit.dist[j] <= 50 * KM }

\* the first of them in the cluster list
FitFirst == CHOOSE j \in FitWithin : \A k \in FitWithin : j <= k

LastOf(seq) == seq[Len(seq)]

\* C3: first fit.  A visitor within 50 km of the centre of several clusters
\* is appended to the first of them in the cluster list, whether or not it
\* is the nearest, and to no other cluster.
C3_FirstFit ==
  (variant = "radius" /\ lastFit # NoFit /\ FitWithin # {}) =>
    /\ Len(clusters) = Len(lastFit.dist)
    /\ PlacesOf(FitVisitor, clusters)
         = { << FitFirst, Len(clusters[FitFirst].visitors) >> }

\* a visitor was within 50 km of two clusters, the first of them not the
\* nearest, and has been added
C3_Witness ==
  /\ variant = "radius"
  /\ lastFit # NoFit
  /\ Cardinality(FitWithin) >= 2
  /\ \E j \in FitWithin : lastFit.dist[j] < lastFit.dist[FitFirst]
  /\ PlacesOf(FitVisitor, clusters) # {}

RECURSIVE PlainSum(_, _)
\* the sum of the parsed latitudes (which = "latitude") or longitudes of
\* the members
PlainSum(members, which) ==
  IF members = << >> THEN 0
  ELSE Add(PlainSum(Tail(members), which),
           ParseFloat(IF which = "latitude" THEN Head(members).latitude
                      ELSE Head(members).longitude))

\* C4: after every step of the radius variant, and in its result, the
\* latitude and longitude of each cluster are the unweighted arithmetic mean
\* of the parsed latitudes and longitudes of its members.
C4_CentroidIsUnweightedMean ==
  variant = "radius" =>
    \A k \in 1 .. Len(clusters) :
      /\ clusters[k].latitude
           = DivN(PlainSum(clusters[k].visitors, "latitude"),
                  Len(clusters[k].visitors))
      /\ clusters[k].longitude
           = DivN(PlainSum(clusters[k].visitors, "longitude"),
                  Len(clusters[k].visitors))

\* in the middle of the loop a cluster holds two members of different
\* weight at different places
C4_Witness ==
  /\ variant = "radius"
  /\ pc = "loop"
  /\ \E k \in 1 .. Len(clusters) :
       /\ Len(clusters[k].visitors) >= 2
       /\ \E m, n \in 1 .. Len(clusters[k].visitors) :
            /\ VisitCountOrOne(clusters[k].visitors[m])
                 # VisitCountOrOne(clusters[k].visitors[n])
            /\ ParseFloat(clusters[k].visitors[m].latitude)
                 # ParseFloat(clusters[k].visitors[n].latitude)

\* the weight of a visitor: its visit_count, 1 when that is absent or zero
Weight(visitor) ==
  IF "visit_count" \notin DOMAIN visitor THEN 1
  ELSE IF visitor.visit_count = 0 THEN 1
  ELSE visitor.visit_count

RECURSIVE WeightSum(_)
WeightSum(members) ==
  IF members = << >> THEN 0
  ELSE Weight(Head(members)) + WeightSum(Tail(members))

\* C5: the totalVisits of every cluster is the sum over its members of
\* visit_count, an absent or zero visit_count counting as 1; it is at least
\* the number of members.
C5_TotalVisitsIsWeightSum ==
  \A k \in 1 .. Len(clusters) :
    /\ clusters[k].totalVisits = WeightSum(clusters[k].visitors)
    /\ clusters[k].totalVisits >= Len(clusters[k].visitors)

\* a returned cluster holds a member without visit_count, one with
\* visit_count zero and one with a visit_count above 1
C5_Witness ==
  /\ pc = "done"
  /\ \E k \in 1 .. Len(clusters) :
       /\ \E m \in 1 .. Len(clusters[k].visitors) :
            "visit_count" \notin DOMAIN clusters[k].visitors[m]
       /\ \E m \in 1 .. Len(clusters[k].visitors) :
            /\ "visit_count" \in DOMAIN clusters[k].visitors[m]
            /\ clusters[k].visitors[m].visit_count = 0
       /\ \E m \in 1 .. Len(clusters[k].visitors) :
            /\ "visit_count" \in DOMAIN clusters[k].visitors[m]
            /\ clusters[k].visitors[m].visit_count > 1

\* the list of the given catalog rows, a row's id its position
ListOf(rows) == [j \in 1 .. Len(rows) |-> [id |-> j] @@ rows[j]]

\* C6: the threshold rule.  A visitor joins an existing cluster exactly
\* when it is at most 50 km from the current centre of that cluster; when no
\* cluster is within 50 km, a new cluster seeded by the visitor is appended.
\* Two points in New York yield one cluster, New York and London two.
C6_ThresholdRule ==
  /\ (variant = "radius" /\ lastFit # NoFit) =>
       IF FitWithin = {}
       THEN /\ Len(clusters) = Len(lastFit.dist) + 1
            /\ LastOf(clusters).visitors = << FitVisitor >>
            /\ PlacesOf(FitVisitor, clusters) = { << Len(clusters), 1 >> }
       ELSE /\ Len(clusters) = Len(lastFit.dist)
            /\ \E j \in FitWithin :
                 PlacesOf(FitVisitor, clusters)
                   = { << j, Len(clusters[j].visitors) >> }
  /\ (RadiusReturned /\ visitors = ListOf(<< NewYork, NewYork2 >>)) =>
       Len(clusters) = 1
  /\ (RadiusReturned /\ visitors = ListOf(<< NewYork, London >>)) =>
       Len(clusters) = 2

\* New York, a second point in New York and London have been clustered:
\* the second joined the first, London was appended as a new cluster
C6_Witness ==
  /\ RadiusReturned
  /\ visitors = ListOf(<< NewYork, NewYork2, London >>)
  /\ Len(clusters) = 2
  /\ Len(clusters[1].visitors) = 2
  /\ FitWithin = {}

\* C7: the centre of every cluster of the radius variant is within 50 km
\* (great-circle distance) of the coordinates of at least one of its
\* members, for all visitors with valid coordinates, also near the
\* antimeridian and the poles.
C7_CentreNearAMember ==
  variant = "radius" =>
    \A k \in 1 .. Len(clusters) :
      (\A m \in 1 .. Len(clusters[k].visitors) :
         ValidCoordinates(clusters[k].visitors[m]))
      => \E m \in 1 .. Len(clusters[k].visitors) :
           LET d == calculateDistance(
                      clusters[k].latitude, clusters[k].longitude,
                      ParseFloat(clusters[k].visitors[m].latitude),
                      ParseFloat(clusters[k].visitors[m].longitude))
           IN  ~IsNaN(d) /\ d <= 50 * KM

\* C8: clustering the member list of a returned cluster again yields one
\* cluster, with the same members and the same centre.
C8_ReclusteringIsIdempotent ==
  RadiusReturned =>
    \A k \in 1 .. Len(clusters) :
      LET again == createClusters(clusters[k].visitors, zoomLevel)
      IN  /\ Len(again) = 1
          /\ again[1].visitors = clusters[k].visitors
          /\ again[1].latitude = clusters[k].latitude
          /\ again[1].longitude = clusters[k].longitude

\* a call has returned two clusters, one of them with several members
C8_Witness ==
  /\ RadiusReturned
  /\ Len(clusters) >= 2
  /\ \E k \in 1 .. Len(clusters) : Len(clusters[k].visitors) >= 2

\* a call with the arguments of the remembered call has returned
SameCallReturned ==
  /\ pc = "done"
  /\ memo.set
  /\ memo.variant = variant
  /\ memo.visitors = visitors
  /\ memo.zoomLevel = zoomLevel

\* C9: two calls with the same visitor list and view parameter return the
\* same clusters, in the same order, with the same centres, members and
\* totalVisits, whatever calls were made in between.
C9_SameArgumentsSameResult ==
  SameCallReturned => clusters = memo.result

\* a call has been repeated with the arguments of a remembered call that
\* returned a cluster of two members
C9_Witness ==
  /\ SameCallReturned
  /\ \E k \in 1 .. Len(memo.result) : Len(memo.result[k].visitors) >= 2

\* C10: the clusters are in the order in which they were created, and the
\* members of a cluster in the order of the input, the seeding visitor
\* first.
C10_CreationOrder ==
  variant = "radius" =>
    /\ \A k, l \in 1 .. Len(clusters) :
         k < l => clusters[k].visitors[1].id < clusters[l].visitors[1].id
    /\ \A k \in 1 .. Len(clusters) :
         \A m, n \in 1 .. Len(clusters[k].visitors) :
           m < n => clusters[k].visitors[m].id < clusters[k].visitors[n].id

\* a call has returned two clusters, the first of which took a visitor
\* that came after the seed of the second
C10_Witness ==
  /\ RadiusReturned
  /\ Len(clusters) = 2
  /\ Len(clusters[1].visitors) = 2
  /\ clusters[1].visitors[2].id > clusters[2].visitors[1].id

\* C11: zoom independence.  For every visitor list the radius variant
\* returns the same clusters for any two values of the zoom parameter: what
\* a call returned is what the function yields at every other zoom, with
\* the same members, centres and order.
C11_ZoomIndependence ==
  RadiusReturned =>
    \A zoom \in ZoomLevels : clusters = createClusters(visitors, zoom)

\* a call at the widest zoom has returned two clusters, one of them with
\* two members
C11_Witness ==
  /\ RadiusReturned
  /\ zoomLevel = 30
  /\ Len(clusters) = 2
  /\ \E k \in 1 .. Len(clusters) : Len(clusters[k].visitors) = 2

RECURSIVE LatestOf(_)
\* the latest last_seen of the given visitors, an absent one counting as
\* time 0
LatestOf(members) ==
  IF Len(members) = 1 THEN VisitTime(members[1])
  ELSE LET rest == LatestOf(Tail(members))
       IN  IF VisitTime(members[1]) >= rest THEN VisitTime(members[1])
           ELSE rest

\* the cluster carries the recency flag the visitor list asks for
RecencyFlagOf(cluster, list) ==
  IF LatestOf(cluster.visitors) >= LatestOf(list) - 5000
  THEN /\ "lastVisitTime" \in DOMAIN cluster
       /\ cluster.lastVisitTime = LatestOf(cluster.visitors)
  ELSE "lastVisitTime" \notin DOMAIN cluster

\* C12: the recency flag.  With mostRecentVisit the latest last_seen of all
\* input visitors, each returned cluster carries lastVisitTime, the latest
\* last_seen of its members, exactly when that is at least mostRecentVisit
\* less 5000 ms, and carries none otherwise.
C12_RecencyFlag ==
  pc = "done" =>
    \A k \in 1 .. Len(clusters) : RecencyFlagOf(clusters[k], visitors)

\* the visitor with the defaults of its absent optional fields written out
WithDefaults(visitor) == visitor @@ [visit_count |-> 1, last_seen |-> 0]

\* the two cluster lists agree on everything but the optional fields of
\* their members
SameButDefaults(clusterList, expected) ==
  /\ Len(clusterList) = Len(expected)
  /\ \A k \in 1 .. Len(clusterList) :
       /\ clusterList[k].latitude = expected[k].latitude
       /\ clusterList[k].longitude = expected[k].longitude
       /\ clusterList[k].totalVisits = expected[k].totalVisits
       /\ Len(clusterList[k].visitors) = Len(expected[k].visitors)
       /\ \A m \in 1 .. Len(clusterList[k].visitors) :
            clusterList[k].visitors[m].id = expected[k].visitors[m].id
       /\ ("lastVisitTime" \in DOMAIN clusterList[k])
            = ("lastVisitTime" \in DOMAIN expected[k])
       /\ "lastVisitTime" \in DOMAIN expected[k] =>
            clusterList[k].lastVisitTime = expected[k].lastVisitTime

\* the next iteration of the radius loop yields a cluster list: the one
\* before it, with one member or one cluster more
LoopStepYields ==
  LET next == AddPoint(clusters, Point(visitors[i]))
  IN  /\ Len(next) \in {Len(clusters), Len(clusters) + 1}
      /\ Cardinality(MembersOf(next)) = Cardinality(MembersOf(clusters)) + 1

\* C13: createClusters never throws, whatever the shape of its input.  A
\* call with any list (empty, coordinates malformed or absent, optional
\* fields absent) can be entered, every step of it can be followed by a
\* next one until it returns, and what it returns is what it returns for
\* the rows with the defaults of their absent fields written out.
C13_NeverThrows ==
  /\ pc = "idle" =>
       \A list \in VisitorLists(ShapeCatalog, MaxShapeLen) :
         /\ ENABLED CallRadius(list, zoomLevel)
         /\ ENABLED CallGrid(list, zoomLevel)
  /\ pc = "loop" =>
       IF i <= Len(visitors) THEN LoopStepYields ELSE ENABLED ReturnRadius
  /\ pc = "assign" => ENABLED (AssignStep \/ ReturnGrid)
  /\ pc = "done" =>
       LET plain == [j \in 1 .. Len(visitors) |-> WithDefaults(visitors[j])]
       IN  SameButDefaults(clusters,
                           IF variant = "radius"
                           THEN createClusters(plain, zoomLevel)
                           ELSE createClustersGrid(plain, zoomLevel))

\* a call has returned for a list with a row without longitude, a row with
\* a malformed latitude and a row without any optional field
C13_Witness ==
  /\ pc = "done"
  /\ \E j \in 1 .. Len(visitors) : visitors[j].longitude = Undefined
  /\ \E j \in 1 .. Len(visitors) : IsNaN(ParseFloat(visitors[j].latitude))
  /\ \E j \in 1 .. Len(visitors) :
       DOMAIN visitors[j] = {"id", "latitude", "longitude"}
  /\ Len(clusters) >= 1

\* C14: createClusters has no side effect on its input.  No step of a call
\* changes the visitor list it was given: its length, its order and every
\* record stay as they were, also the records of visitors that are dropped
\* and of visitors whose coordinates are parsed into a cluster member.
C14_InputIsUnchanged ==
  [][(pc \in {"loop", "assign"}) => (visitors' = visitors)]_vars

\* a grid call has returned that dropped a visitor and took one with
\* string coordinates: the member carries the parsed numbers, the input
\* record still the strings
C14_Witness ==
  /\ pc = "done"
  /\ variant = "grid"
  /\ \E j \in 1 .. Len(visitors) : ~ValidCoordinates(visitors[j])
  /\ \E member \in MembersOf(clusters) :
       /\ member.latitude.type = "number"
       /\ visitors[member.id].latitude.type = "string"

\* C15: empty input.  The radius variant called with an empty visitor
\* list, or with a list that is empty once the visitors with invalid
\* coordinates are dropped, returns an empty cluster list, at every zoom.
C15_EmptyInputEmptyOutput ==
  (RadiusReturned /\ SelectSeq(visitors, ValidCoordinates) = << >>) =>
    clusters = << >>

\* C16: a single visitor.  The radius variant called with a list of exactly
\* one visitor with valid coordinates returns exactly one cluster: its
\* centre is the parsed coordinates of the visitor, its members are that
\* visitor alone, its totalVisits is the visit_count of the visitor, 1 when
\* that is absent or zero.
C16_SingleVisitor ==
  (RadiusReturned /\ Len(visitors) = 1 /\ ValidCoordinates(visitors[1])) =>
    /\ Len(clusters) = 1
    /\ clusters[1].latitude = ParseFloat(visitors[1].latitude)
    /\ clusters[1].longitude = ParseFloat(visitors[1].longitude)
    /\ clusters[1].visitors = << visitors[1] >>
    /\ clusters[1].totalVisits = Weight(visitors[1])
    /\ visitors = ListOf(<< NewYork2 >>) =>
         /\ clusters[1].latitude = 407300
         /\ clusters[1].longitude = -739350
         /\ clusters[1].totalVisits = 1
    /\ visitors = ListOf(<< London >>) => clusters[1].totalVisits = 3
    /\ visitors = ListOf(<< North60 >>) => clusters[1].totalVisits = 1

\* a call with the single visitor whose visit_count is zero and whose
\* latitude is a string has returned
C16_Witness ==
  /\ RadiusReturned
  /\ visitors = ListOf(<< North60 >>)
  /\ Len(clusters) = 1
  /\ clusters[1].latitude = 413128

\* the number of visitors of the list with valid coordinates
ValidCount == Len(SelectSeq(visitors, ValidCoordinates))

\* C17: every cluster of every intermediate and final cluster list, of
\* either variant, has at least one member; and whenever the list holds a
\* visitor with valid coordinates, the number of returned clusters is
\* between 1 and the number of visitors with valid coordinates.
C17_ClustersAreNonEmpty ==
  /\ \A k \in 1 .. Len(clusters) : Len(clusters[k].visitors) >= 1
  /\ \A k \in 1 .. Len(grid) : Len(grid[k].visitors) >= 1
  /\ (pc = "done" /\ ValidCount >= 1) =>
       (1 <= Len(clusters) /\ Len(clusters) <= ValidCount)

\* C18: stable client identity.  getVisitorId makes an identifier only
\* when the stored item is absent or empty, stores it and returns it; all
\* calls made on the same storage have returned the same value, which is
\* the stored one; and a stored identifier that is not empty is never
\* overwritten.
C18_StableIdentity ==
  /\ [](\A m, n \in 1 .. Len(returned) : returned[m].id = returned[n].id)
  /\ [](Len(returned) > 0 =>
          /\ returned[Len(returned)].id = localStorage
          /\ localStorage \in UuidV4)
  /\ [][/\ (localStorage # Null /\ localStorage # Str(<< >>))
             => (localStorage' = localStorage)
        /\ (localStorage' # localStorage)
             => /\ localStorage' \in UuidV4
                /\ returned'[Len(returned')].id = localStorage'
        /\ (Len(returned') > Len(returned)
              /\ returned'[Len(returned')].created)
             => localStorage \in {Null, Str(<< >>)}]_vars

\* getVisitorId of both components has been called, four times in all, on
\* a storage that held an empty item: the first call made the identifier
C18_Witness ==
  /\ Len(returned) = 4
  /\ returned[1].created
  /\ \E m, n \in 1 .. Len(returned) : returned[m].version # returned[n].version
  /\ \A m \in 2 .. Len(returned) : ~returned[m].created

\* the requests that were answered with 200
Accepted == { k \in 1 .. Len(handlers) : handlers[k].status = 200 }

\* the rows with the given id
RowsWithId(id) == { row \in table : row.id = id }

\* C19: the visit log is insert-only.  Every accepted record-visit request
\* adds exactly one row, under an id no row had before; no step of any
\* request, however the requests interleave, changes or removes a row; the
\* table only grows, also when the same visitorId visits again.
C19_InsertOnly ==
  /\ [][/\ table \subseteq table'
        /\ Cardinality(table') <= Cardinality(table) + 1
        /\ \A row \in table' \ table : RowsWithId(row.id) = {}
        /\ \A k \in 1 .. Len(handlers) :
             (handlers[k].status # 200 /\ handlers'[k].status = 200)
               => /\ Cardinality(table') = Cardinality(table) + 1
                  /\ \A row \in table' \ table :
                       /\ row.id = handlers[k].id
                       /\ row.visitor_id = handlers[k].request.body.visitorId
        /\ (\A k \in 1 .. Len(handlers) :
              handlers[k].status = 200 \/ handlers'[k].status # 200)
             => table' = table]_vars
  /\ [](/\ Cardinality(table) = Cardinality(Accepted)
        /\ \A k \in Accepted :
             Cardinality(RowsWithId(handlers[k].id)) = 1)

\* two visits of the same visitorId were accepted while both were under
\* way: the table holds two rows of that visitor
C19_Witness ==
  /\ Cardinality(Accepted) = 2
  /\ Cardinality(table) = 2
  /\ \A row \in table : row.visitor_id = Str(Uuid4("a"))
  /\ \E row \in table : row.last_seen = 2

\* the visitorIds of the requests that are UUIDs
GoodIds == { Str(Uuid4("a")), Str(Uuid4("b")) }

\* the latitude and longitude the server reads from the request, in
\* 1/DEG degrees: those of the body, or those Cloudflare gives
PlaceRead(handler) ==
  IF handler.server = "cloudflare"
  THEN IF handler.request.cf = NoCf THEN << NaN, NaN >>
       ELSE << ParseFloat(handler.request.cf.latitude),
               ParseFloat(handler.request.cf.longitude) >>
  ELSE << IF handler.request.body.latitude.type = "number"
          THEN handler.request.body.latitude.num ELSE NaN,
          IF handler.request.body.longitude.type = "number"
          THEN handler.request.body.longitude.num ELSE NaN >>

\* the request is one the claim wants rejected
IllFormed(handler) ==
  \/ handler.request.body.visitorId \notin GoodIds
  \/ IsNaN(PlaceRead(handler)[1])
  \/ IsNaN(PlaceRead(handler)[2])
  \/ PlaceRead(handler)[1] < -900000
  \/ PlaceRead(handler)[1] > 900000
  \/ PlaceRead(handler)[2] < -1800000
  \/ PlaceRead(handler)[2] > 1800000

\* C20: only well-formed rows are recorded.  A record-visit request whose
\* visitorId is no UUID, whose latitude is outside [-90, 90], whose
\* longitude is outside [-180, 180] or that has no place is answered with
\* a 4xx status and adds no row; every row of the table has its latitude
\* in [-90, 90] and its longitude in [-180, 180].
C20_OnlyWellFormedRows ==
  /\ \A k \in 1 .. Len(handlers) :
       IllFormed(handlers[k]) =>
         /\ handlers[k].pc = "responded"
         /\ handlers[k].status \in 400 .. 499
  /\ Cardinality(table)
       <= Cardinality({ k \in 1 .. Len(handlers) : ~IllFormed(handlers[k]) })
  /\ \A row \in table :
       /\ row.latitude >= -900000 /\ row.latitude <= 900000
       /\ row.longitude >= -1800000 /\ row.longitude <= 1800000
       /\ row.visitor_id \in GoodIds

\* a request with a latitude just above 90 was rejected and a request at
\* the edge of both ranges was accepted: its row is in the table
C20_Witness ==
  /\ \E k \in 1 .. Len(handlers) :
       /\ PlaceRead(handlers[k])[1] = 900001
       /\ handlers[k].status = 400
  /\ \E row \in table : row.latitude = 900000 /\ row.longitude = -1800000

\* ------------------------------------------------------------------------
\* Properties of the page
\* ------------------------------------------------------------------------

\* a render has been made and no change of the visitors or of the zoom
\* level has come since
Rendered == view.deps.set /\ ~view.stale

\* C21: no stale clusters.  After every render the cluster list is what
\* createClusters yields for the visitors and the zoom level of that render,
\* which are the current ones, and the point data is derived from that list:
\* a memo of an older snapshot is never shown.
C21_NoStaleClusters ==
  Rendered =>
    /\ view.deps.ref = view.data.ref
    /\ view.deps.zoom = view.zoomLevel
    /\ view.clusters = createClusters(view.data.rows, view.zoomLevel)
    /\ view.pointData = PointData(view.clusters)

\* a render has followed the third delivery of rows and a change of the
\* zoom level, and shows two clusters
C21_Witness ==
  /\ Rendered
  /\ view.data.ref = 3
  /\ view.zoomLevel = 5
  /\ Len(view.clusters) = 2
  /\ Len(view.pointData) = 2

C27_PrefixStability ==
  (Rendered /\ view.data.rows # << >>) =>
    LET rows   == view.data.rows
        v      == rows[Len(rows)]
        before == createClusters(SubSeq(rows, 1, Len(rows) - 1),
                                 view.zoomLevel)
        after  == view.clusters
    IN  \/ /\ Len(after) = Len(before)
           /\ \E k \in 1 .. Len(before) :
                /\ after[k].visitors = Append(before[k].visitors, v)
                /\ \A l \in 1 .. Len(before) : l # k => after[l] = before[l]
        \/ /\ Len(after) = Len(before) + 1
           /\ after[Len(after)].visitors = << v >>
           /\ \A l \in 1 .. Len(before) : after[l] = before[l]

\* the third visitor has joined the first of two clusters
C27_Witness ==
  /\ Rendered
  /\ Len(view.data.rows) = 3
  /\ Len(view.clusters) = 2
  /\ Len(view.clusters[1].visitors) = 2
  /\ view.clusters[1].visitors[2].id = 3

\* the ids of the visitors the panel lists
Listed == { view.panel[k].id : k \in 1 .. Len(view.panel) }

\* C26: the panel lists exactly the visitors of the raw set whose last_seen
\* is less than one hour before the time of the panel's render, each once,
\* the later seen first; whether the coordinates of a visitor are numbers
\* plays no part.
C26_RecentVisitorsPanel ==
  view.deps.set =>
    /\ view.panelAt <= view.now
    /\ ~view.stale => view.props = view.data.rows
    /\ \A j \in 1 .. Len(view.props) :
         (view.props[j].id \in Listed)
           <=> /\ "last_seen" \in DOMAIN view.props[j]
               /\ view.panelAt - view.props[j].last_seen < 3600000
    /\ \A k \in 1 .. Len(view.panel) :
         /\ view.panel[k] \in { view.props[j] : j \in 1 .. Len(view.props) }
         /\ \A l \in 1 .. Len(view.panel) :
              /\ k # l => view.panel[k].id # view.panel[l].id
              /\ k < l => view.panel[k].last_seen >= view.panel[l].last_seen

\* one hour after the visit of London the panel lists the visitor whose
\* latitude is not a number after the later one of New York, and not the
\* one of London
C26_Witness ==
  /\ Rendered
  /\ view.panelAt = 3610000
  /\ Len(view.data.rows) = 3
  /\ \E j \in 1 .. 3 : PanelTime(view.data.rows[j]) = 10000
  /\ Len(view.panel) = 2
  /\ ~ValidCoordinates(view.panel[2])
  /\ view.panel[1].id > view.panel[2].id

\* ------------------------------------------------------------------------
\* Properties of the grid variant at every cell size
\* ------------------------------------------------------------------------

GridReturned == pc = "done" /\ variant = "grid"

\* the number of the grid line at or below a coordinate, for a cell size in
\* degrees
CellOf(x, size) == x \div (size * DEG)

\* the cluster, by position, that has the visitor of the given position in
\* the list as a member; 0 when there is none
ClusterOf(j) ==
  LET holding == { k \in 1 .. Len(clusters) :
                     \E m \in 1 .. Len(clusters[k].visitors) :
                       clusters[k].visitors[m].id = visitors[j].id }
  IN  IF holding = {} THEN 0 ELSE CHOOSE k \in holding : TRUE

\* C23: in the grid variant the cell size is 20 for a zoom up to 1, 10 up to
\* 2, 5 up to 4 and 2 beyond, so never larger for a larger zoom; two valid
\* visitors are in the same cluster exactly when the floors of their
\* latitudes over the size are equal and those of their longitudes are; and
\* the centre of every cluster lies in the cell of its members.
C23_GridCells ==
  GridReturned =>
    LET size == getGridSize(zoomLevel)
    IN  /\ size = (IF zoomLevel <= 10 THEN 20
                   ELSE IF zoomLevel <= 20 THEN 10
                   ELSE IF zoomLevel <= 40 THEN 5 ELSE 2)
        /\ \A zoom \in GridZooms :
             zoom >= zoomLevel => getGridSize(zoom) <= size
        /\ \A j, k \in 1 .. Len(visitors) :
             (ValidCoordinates(visitors[j]) /\ ValidCoordinates(visitors[k]))
               => /\ ClusterOf(j) # 0
                  /\ (ClusterOf(j) = ClusterOf(k))
                       <=> /\ CellOf(ParseFloat(visitors[j].latitude), size)
                              = CellOf(ParseFloat(visitors[k].latitude), size)
                           /\ CellOf(ParseFloat(visitors[j].longitude), size)
                              = CellOf(ParseFloat(visitors[k].longitude), size)
        /\ \A k \in 1 .. Len(clusters) :
             \A m \in 1 .. Len(clusters[k].visitors) :
               /\ CellOf(clusters[k].latitude, size)
                    = CellOf(clusters[k].visitors[m].latitude.num, size)
               /\ CellOf(clusters[k].longitude, size)
                    = CellOf(clusters[k].visitors[m].longitude.num, size)

\* at zoom 4, cell size 5, the visitors of New York and Boston are in one
\* cluster and the one of Toronto in another
C23_Witness ==
  /\ GridReturned
  /\ zoomLevel = 40
  /\ Len(visitors) = 3
  /\ Len(clusters) = 2
  /\ Len(clusters[1].visitors) = 2
  /\ clusters[1].visitors[2].longitude.num = -710589
  /\ clusters[2].visitors[1].longitude.num = -793832

\* ------------------------------------------------------------------------
\* Properties of the server
\* ------------------------------------------------------------------------

\* C30: a record-visit request whose INSERT was sent is always answered by
\* its handler, with 200 or with 500: with 500 exactly when the statement
\* failed and the table is as it was, with 200 exactly when the row was
\* added; no exception leaves the handler.
C30_FailureIsAnswered ==
  [][\A k \in 1 .. Len(handlers) :
       (handlers[k].pc = "insert" /\ handlers'[k] # handlers[k])
         => /\ handlers'[k].pc = "responded"
            /\ handlers'[k].status \in {200, 500}
            /\ handlers'[k].status = 500 <=> table' = table
            /\ handlers'[k].status = 200
                 <=> /\ table' # table
                     /\ \A row \in table' \ table :
                          row.id = handlers[k].id]_vars

\* of two requests that passed the validation, one was answered with 500 and
\* the other with 200: the table holds the row of the other only
C30_Witness ==
  /\ Len(handlers) = 2
  /\ handlers[1].status = 500
  /\ handlers[2].status = 200
  /\ Cardinality(table) = 1
  /\ \A row \in table : row.id = handlers[2].id

\* C25: the record-visit request a page sends once its visitor id is set
\* passes the validation of the server: none is answered with 400, and one
\* whose INSERT has run without failure has its row in the table.
C25_ClientVisitIsRecorded ==
  \A k \in 1 .. Len(handlers) :
    /\ handlers[k].status # 400
    /\ handlers[k].status = 200 =>
         \E row \in table : row.visitor_id = handlers[k].request.body.visitorId

\* C28: every request the shape proxy sends to the sync service has the
\* table visitors, and the database_id and the token of the server when the
\* server is configured with them, whatever the query of the page's request
\* holds.
C28_ServerParametersWin ==
  \A k \in 1 .. Len(upstream) :
    /\ upstream[k].params["table"] = "visitors"
    /\ upstream[k].configured =>
         /\ upstream[k].params["database_id"] = DatabaseId
         /\ upstream[k].params["token"] = Token

\* ------------------------------------------------------------------------
\* Properties of calculateDistance
\* ------------------------------------------------------------------------

\* the width within which two distances count as equal: 5 metres
Tolerance == KM \div 200

\* C22: calculateDistance is the great-circle distance on a sphere of radius
\* 6371 km.  For every two points it is a number that is not negative, the
\* same both ways, and 0 for a point and itself; New York and London are
\* 5570 km apart, and a quarter of a great circle is 10007.5 km long.
C22_Haversine ==
  probe.set =>
    /\ ~IsNaN(probe.distance)
    /\ probe.distance >= 0
    /\ ~IsNaN(probe.back)
    /\ Abs(probe.distance - probe.back) <= Tolerance
    /\ probe.from = probe.to => probe.distance = 0
    /\ (probe.from = << 407128, -740060 >> /\ probe.to = << 515074, -1278 >>)
         => Abs(probe.distance - 5570222) <= Tolerance
    /\ (probe.from = << 0, 0 >> /\ probe.to = << 0, 900000 >>)
         => Abs(probe.distance - 10007543) <= Tolerance

\* ------------------------------------------------------------------------
\* Properties of the globe
\* ------------------------------------------------------------------------

\* C29: point data is applied to the globe only when a globe instance is
\* stored and the initialization is complete; and once the cleanup of an
\* effect run has run, no step stores in the ref or attaches to the element
\* a globe made by the import of that run.
C29_NoGlobeAfterCleanup ==
  [][/\ globe'.shown # globe.shown
          => (globe'.shown = globe'.instance /\ globe.initialized)
     /\ \A r \in globe.cleaned :
          /\ globe'.instance = r => globe.instance = r
          /\ r \in globe'.children => r \in globe.children]_vars

=============================================================================
